---- MODULE Spec2Model ----
(***************************************************************************)
(* Checkout orchestration of the e-commerce payment system:               *)
(* CheckoutFacade.ProcessOrder with its inventory, payment, decorator,     *)
(* strategy, retry, persistence and event steps.                           *)
(* Amounts are whole currency units (the model's prices are chosen so that *)
(* every percentage and installment used here is exact).                   *)
(***************************************************************************)
EXTENDS Integers, Sequences, FiniteSets, TLC

\* ------------------------------------------------------------------ bounds
MaxStock == 2
MaxQty == 2
MaxRetryAttempts == 2
MaxOrders == 2
MaxObservers == 2
MaxChain == 3
MaxParts == 3
MaxRecorded == 3

\* ------------------------------------------------------- program constants
InstantMinAmount == 1
InstantMaxAmount == 10000
DeferredMinAmount == 100
DeferredMaxAmount == 10000
DeferredInstallments == 3
CreditCardMin == 1
CreditCardMax == 10000
PayPalMin == 1
PayPalMax == 5000
CryptoMin == 10
CryptoMax == 50000
DiscountValue == 10
MaxFixedAmount == 500
MaxRiskScore == 70
MaxTransactionsPerWindow == 3
TaxRate == 10
PointsToCurrencyRatio == 2
MaxRedemptionPercentage == 50
InitialLoyaltyPoints == 500

\* ------------------------------------------------------------ model inputs
Products == {"prod-1", "prod-2"}
MissingProduct == "prod-gone"
Price == [p \in Products \cup {MissingProduct} |->
            IF p = "prod-1" THEN 600 ELSE IF p = "prod-2" THEN 5400 ELSE 300]
InitialStock == [p \in Products |-> IF p = "prod-1" THEN MaxStock ELSE 1]
CustomerID == "cust-1"
RandScores == {0, 29}

\* -------------------------------------------------------------- error kinds
ErrCodeValidation == "VALIDATION_ERROR"
ErrCodeNotFound == "NOT_FOUND"
ErrCodeAlreadyExists == "ALREADY_EXISTS"
ErrCodePaymentFailed == "PAYMENT_FAILED"
ErrCodeInvalidPayment == "INVALID_PAYMENT"
ErrCodeFraudDetected == "FRAUD_DETECTED"
ErrCodeInventoryError == "INVENTORY_ERROR"
ErrCodeInternalError == "INTERNAL_ERROR"
ErrCodeTimeout == "TIMEOUT"

\* An error is its Unwrap chain, outermost frame first; <<>> is nil.
\* A frame is an *AppError (app = TRUE) or any other error value.
NoError == <<>>
AppFrame(code, msg) == [app |-> TRUE, code |-> code, msg |-> msg]
PlainFrame(msg) == [app |-> FALSE, code |-> "", msg |-> msg]

New(code, msg) == <<AppFrame(code, msg)>>
Wrap(err, code, msg) == <<AppFrame(code, msg)>> \o err
Errorf(msg, err) == <<PlainFrame(msg)>> \o err

\* errors.As: the first *AppError met while unwrapping decides.
RECURSIVE IsErrorCode(_, _)
IsErrorCode(err, code) ==
    IF err = NoError THEN FALSE
    ELSE IF Head(err).app THEN Head(err).code = code
    ELSE IsErrorCode(Tail(err), code)

RECURSIVE GetErrorCode(_)
GetErrorCode(err) ==
    IF err = NoError THEN ErrCodeInternalError
    ELSE IF Head(err).app THEN Head(err).code
    ELSE GetErrorCode(Tail(err))

\* AppError.Error(): "Code: Message[: inner text]", as the list of its parts.
RECURSIVE ErrorText(_)
ErrorText(err) ==
    IF err = NoError THEN <<>>
    ELSE IF Head(err).app
         THEN <<Head(err).code, Head(err).msg>> \o ErrorText(Tail(err))
         ELSE <<Head(err).msg>> \o ErrorText(Tail(err))

\* The innermost error of the chain (what first went wrong).
RootCause(err) == err[Len(err)]

\* ------------------------------------------------------------------ domain
RECURSIVE GetTotal(_)
GetTotal(items) ==
    IF items = <<>> THEN 0
    ELSE Head(items).price * Head(items).quantity + GetTotal(Tail(items))

\* Cart.AddItem: merge into the line of the same product, else append.
CartAddItem(items, p, q) ==
    IF \E i \in 1..Len(items) : items[i].productID = p
    THEN [i \in 1..Len(items) |->
            IF items[i].productID = p
            THEN [items[i] EXCEPT !.quantity = @ + q]
            ELSE items[i]]
    ELSE Append(items, [productID |-> p, quantity |-> q, price |-> Price[p]])

\* ----------------------------------------------------------- inventory
CheckAvailability_Lenient(st, p, q) ==
    IF p \notin DOMAIN st
    THEN [available |-> FALSE, err |-> New(ErrCodeNotFound, "product not found")]
    ELSE [available |-> st[p] + 1 >= q, err |-> NoError]

CheckAvailability(st, p, q) ==
    IF p \notin DOMAIN st
    THEN [available |-> FALSE, err |-> New(ErrCodeNotFound, "product not found")]
    ELSE [available |-> st[p] >= q, err |-> NoError]

ReserveStock_NoWrite(st, p, q) ==
    IF p \notin DOMAIN st
    THEN [stock |-> st, err |-> New(ErrCodeNotFound, "product not found")]
    ELSE IF st[p] < q
    THEN [stock |-> st, err |-> New(ErrCodeInventoryError, "insufficient stock")]
    ELSE [stock |-> st, err |-> NoError]

ReserveStock(st, p, q) ==
    IF p \notin DOMAIN st
    THEN [stock |-> st, err |-> New(ErrCodeNotFound, "product not found")]
    ELSE IF st[p] < q
    THEN [stock |-> st, err |-> New(ErrCodeInventoryError, "insufficient stock")]
    ELSE [stock |-> [st EXCEPT ![p] = @ - q], err |-> NoError]

ReleaseStock_NoWrite(st, p, q) ==
    IF p \notin DOMAIN st
    THEN [stock |-> st, err |-> New(ErrCodeNotFound, "product not found")]
    ELSE [stock |-> st, err |-> NoError]

ReleaseStock(st, p, q) ==
    IF p \notin DOMAIN st
    THEN [stock |-> st, err |-> New(ErrCodeNotFound, "product not found")]
    ELSE [stock |-> [st EXCEPT ![p] = @ + q], err |-> NoError]

RECURSIVE validateInventory(_, _)
validateInventory(st, items) ==
    IF items = <<>> THEN NoError
    ELSE LET r == CheckAvailability(st, Head(items).productID, Head(items).quantity)
         IN IF r.err # NoError
            THEN Wrap(r.err, ErrCodeInventoryError, "failed to check inventory")
            ELSE IF ~r.available
            THEN New(ErrCodeInventoryError, "insufficient inventory")
            ELSE validateInventory(st, Tail(items))

\* Reserves line after line; stops at the first line that fails and leaves
\* the earlier lines decremented.  calls = lines ReserveStock was called for.
RECURSIVE reserveInventory(_, _, _)
reserveInventory(st, items, calls) ==
    IF items = <<>> THEN [stock |-> st, err |-> NoError, calls |-> calls]
    ELSE LET r == ReserveStock(st, Head(items).productID, Head(items).quantity)
             log == Append(calls, Head(items).productID)
         IN IF r.err # NoError
            THEN [stock |-> st,
                  err |-> Wrap(r.err, ErrCodeInventoryError, "failed to reserve inventory"),
                  calls |-> log]
            ELSE reserveInventory(r.stock, Tail(items), log)

\* Releases every line; a failing release is logged and skipped.
RECURSIVE rollbackInventory(_, _, _)
rollbackInventory(st, items, calls) ==
    IF items = <<>> THEN [stock |-> st, calls |-> calls]
    ELSE LET r == ReleaseStock(st, Head(items).productID, Head(items).quantity)
         IN rollbackInventory(r.stock, Tail(items),
                              Append(calls, Head(items).productID))

\* ------------------------------------------------------------- payments
SupportedTypes == {"credit_card", "paypal", "crypto"}

CreatePayment(method) ==
    IF method \notin SupportedTypes
    THEN New(ErrCodeInvalidPayment, "unsupported payment type")
    ELSE NoError

AmountValidate_NoMax(amount, min, max) ==
    IF amount < min THEN Errorf("amount is below minimum", NoError)
    ELSE IF amount < 0 THEN Errorf("amount cannot be negative", NoError)
    ELSE NoError

AmountValidate(amount, min, max) ==
    IF amount < min THEN Errorf("amount is below minimum", NoError)
    ELSE IF amount > max THEN Errorf("amount exceeds maximum", NoError)
    ELSE IF amount < 0 THEN Errorf("amount cannot be negative", NoError)
    ELSE NoError

InstrumentMin(method) ==
    IF method = "credit_card" THEN CreditCardMin
    ELSE IF method = "paypal" THEN PayPalMin ELSE CryptoMin

InstrumentMax_Shared(method) == CreditCardMax

InstrumentMax(method) ==
    IF method = "credit_card" THEN CreditCardMax
    ELSE IF method = "paypal" THEN PayPalMax ELSE CryptoMax

\* A nil result with its error.  earned and redeemed stand for the
\* loyalty_points_earned and loyalty_points_redeemed entries of Metadata
\* (0 when absent), charged for the amount the instrument took when its
\* Process returned success (0 when it did not).
FailedResult(err, base) ==
    [ok |-> FALSE, err |-> err, amount |-> 0, originalAmount |-> 0,
     processedAmount |-> 0, applied |-> <<>>, baseCalls |-> base,
     charged |-> 0, recorded |-> 0, earned |-> 0, redeemed |-> 0]

\* CreditCardPayment/PayPalPayment/CryptoPayment.Process on an amount given
\* in 1/unit of the currency (unit = 100: in cents).
BaseProcessIn(unit, method, amount, done) ==
    IF done
    THEN FailedResult(Wrap(Errorf("context done", NoError), ErrCodeTimeout,
                           "payment context expired"), 1)
    ELSE IF AmountValidate(amount, InstrumentMin(method) * unit,
                           InstrumentMax(method) * unit) # NoError
    THEN FailedResult(Wrap(AmountValidate(amount, InstrumentMin(method) * unit,
                                          InstrumentMax(method) * unit),
                           ErrCodeValidation, "invalid payment amount"), 1)
    ELSE [ok |-> TRUE, err |-> NoError, amount |-> amount,
          originalAmount |-> amount, processedAmount |-> amount,
          applied |-> <<>>, baseCalls |-> 1, charged |-> amount, recorded |-> 0,
          earned |-> 0, redeemed |-> 0]

\* The same on whole currency units.
BaseProcess(method, amount, done) == BaseProcessIn(1, method, amount, done)

\* The ids Process takes from domain.NewID: the transaction id is drawn
\* after the context check and the amount check, just before the result.
BaseNewIDs(unit, method, amount, done) ==
    IF done THEN 0
    ELSE IF AmountValidate(amount, InstrumentMin(method) * unit,
                           InstrumentMax(method) * unit) # NoError
    THEN 0
    ELSE 1

\* ------------------------------------------------------------ decorators
calculateRiskScore(amount, rnd) ==
    (IF amount > 1000 THEN 20 ELSE 0) + (IF amount > 5000 THEN 30 ELSE 0) + rnd

\* velocityCheck on a history of `recent` timestamps inside the window;
\* a decorator that recorded nothing yet has no history entry at all.
velocityCheck(recent) ==
    IF recent = 0 THEN NoError
    ELSE IF recent >= MaxTransactionsPerWindow
    THEN New(ErrCodeFraudDetected, "transaction velocity exceeded")
    ELSE NoError

\* velocityCheck of a decorator with the ceiling max: exists says whether
\* transactionHistory has an entry for the customer, recent counts the
\* timestamps of that entry that are inside the window.
velocityCheckOf(exists, recent, max) ==
    IF ~exists THEN NoError
    ELSE IF recent >= max
    THEN New(ErrCodeFraudDetected, "transaction velocity exceeded")
    ELSE NoError

calculateDiscountOf_NoCap(cfg, amount) ==
    IF cfg.discountType = "percentage"
    THEN (amount * cfg.discountValue) \div 100
    ELSE cfg.discountValue

\* DiscountDecorator.calculateDiscount for a decorator built from cfg.
calculateDiscountOf(cfg, amount) ==
    LET discount == IF cfg.discountType = "percentage"
                    THEN (amount * cfg.discountValue) \div 100
                    ELSE cfg.discountValue
        capped == IF cfg.maxDiscount > 0 /\ discount > cfg.maxDiscount
                  THEN cfg.maxDiscount ELSE discount
    IN IF capped > amount THEN amount ELSE capped

\* The DiscountConfig the decorator factory builds (createDiscountDecorator).
FactoryDiscountConfig ==
    [discountType |-> "percentage", discountValue |-> DiscountValue,
     minAmount |-> 0, maxDiscount |-> MaxFixedAmount]

calculateDiscount(amount) == calculateDiscountOf(FactoryDiscountConfig, amount)

calculateTax(amount) == (amount * TaxRate) \div 100

loyaltyDiscountOf_NoRatio(redeem, ratio, unit) == redeem * unit

\* float64(pointsToRedeem) / pointsToCurrencyRatio, in 1/unit of the currency.
loyaltyDiscountOf(redeem, ratio, unit) == (redeem * unit) \div ratio

\* discount > amount * (maxRedemptionPercentage / 100.0)
exceedsMaxRedemptionOf(amount, discount, maxPct) == discount * 100 > amount * maxPct

\* int(amount): the whole currency units of an amount, towards zero.
IntOf(amount, unit) ==
    IF amount >= 0 THEN amount \div unit ELSE 0 - ((0 - amount) \div unit)

\* The currency value of the redeemed points (pointsToRedeem / ratio).
loyaltyDiscount(redeem) == loyaltyDiscountOf(redeem, PointsToCurrencyRatio, 1)

\* discount > amount * (maxRedemptionPercentage / 100)
exceedsMaxRedemption(amount, redeem) ==
    exceedsMaxRedemptionOf(amount, loyaltyDiscount(redeem), MaxRedemptionPercentage)

\* OriginalAmount as TaxDecorator and LoyaltyPointsDecorator leave it: they
\* write it only when the wrapped Payment returned it as zero.
KeepOriginal(r, amount) == IF r.originalAmount = 0 THEN amount ELSE r.originalAmount

DecoratorCheck_NoGeo(name, amount, rnd, geo, recent, redeem) ==
    IF name = "fraud_detection"
    THEN IF calculateRiskScore(amount, rnd) > MaxRiskScore
         THEN New(ErrCodeFraudDetected, "high fraud risk")
         ELSE velocityCheck(recent)
    ELSE IF name = "loyalty_points" /\ exceedsMaxRedemption(amount, redeem)
    THEN New(ErrCodeValidation, "loyalty points redemption exceeds maximum")
    ELSE NoError

\* What a decorator's Process returns before it calls the wrapped Payment:
\* the fraud decorator's three checks, the loyalty decorator's redemption
\* limit; NoError when it goes on to the wrapped Payment.
DecoratorCheck(name, amount, rnd, geo, recent, redeem) ==
    IF name = "fraud_detection"
    THEN IF calculateRiskScore(amount, rnd) > MaxRiskScore
         THEN New(ErrCodeFraudDetected, "high fraud risk")
         ELSE IF velocityCheck(recent) # NoError
         THEN velocityCheck(recent)
         ELSE IF geo
         THEN New(ErrCodeFraudDetected, "geolocation validation failed")
         ELSE NoError
    ELSE IF name = "loyalty_points" /\ exceedsMaxRedemption(amount, redeem)
    THEN New(ErrCodeValidation, "loyalty points redemption exceeds maximum")
    ELSE NoError

AtLeastZero(x) == IF x < 0 THEN 0 ELSE x

\* The amount a decorator called with `amount` passes to d.wrapped.Process.
WrappedAmount(name, amount, redeem) ==
    IF name = "discount" THEN AtLeastZero(amount - calculateDiscount(amount))
    ELSE IF name = "tax" THEN amount + calculateTax(amount)
    ELSE IF name = "loyalty_points"
    THEN AtLeastZero(amount - loyaltyDiscount(redeem))
    ELSE amount

AppendName_Front(applied, name) == <<name>> \o applied

\* result.AppliedDecorators = append(result.AppliedDecorators, name)
AppendName(applied, name) == Append(applied, name)

AfterWrapped_FraudLate(name, r, amount, redeem) ==
    IF name = "fraud_detection"
    THEN [r EXCEPT !.ok = FALSE,
                   !.err = New(ErrCodeFraudDetected, "geolocation validation failed")]
    ELSE [r EXCEPT !.applied = AppendName(@, name)]

\* What a decorator called with `amount` makes of the result r its wrapped
\* Payment returned without error.
AfterWrapped(name, r, amount, redeem) ==
    IF name = "fraud_detection"
    THEN [r EXCEPT !.applied = AppendName(@, name), !.recorded = @ + 1]
    ELSE IF name = "discount"
    THEN [r EXCEPT !.originalAmount = amount,
                   !.processedAmount = WrappedAmount(name, amount, redeem),
                   !.amount = WrappedAmount(name, amount, redeem),
                   !.applied = AppendName(@, name)]
    ELSE IF name = "tax"
    THEN [r EXCEPT !.originalAmount = KeepOriginal(r, amount),
                   !.processedAmount = WrappedAmount(name, amount, redeem),
                   !.amount = WrappedAmount(name, amount, redeem),
                   !.applied = AppendName(@, name)]
    ELSE IF name = "cashback"
    THEN [r EXCEPT !.applied = AppendName(@, name)]
    ELSE \* "loyalty_points"
         [r EXCEPT !.originalAmount = KeepOriginal(r, amount),
                   !.processedAmount = WrappedAmount(name, amount, redeem),
                   !.amount = WrappedAmount(name, amount, redeem),
                   !.applied = AppendName(@, name),
                   !.redeemed = redeem,
                   !.earned = amount]

OnWrappedError_Enveloped(name, r) ==
    [r EXCEPT !.err = Wrap(@, ErrCodePaymentFailed, name)]

\* What a decorator makes of the failure r of its wrapped Payment:
\* if err != nil { return nil, err }
OnWrappedError(name, r) == r

\* Process of a decorator chain.  chain lists the decorators in the order
\* they were applied (chain[1] wraps the instrument, the last one is the
\* outermost); rnd and geo are the draws of the random source, recent the
\* fraud decorator's velocity history, redeem the loyalty decorator's
\* pointsToRedeem.
RECURSIVE ChainProcess(_, _, _, _, _, _, _, _)
ChainProcess(chain, method, amount, done, rnd, geo, recent, redeem) ==
    IF chain = <<>> THEN BaseProcess(method, amount, done)
    ELSE
      LET top == chain[Len(chain)]
          inner == SubSeq(chain, 1, Len(chain) - 1)
          err == DecoratorCheck(top, amount, rnd, geo, recent, redeem)
          r == ChainProcess(inner, method, WrappedAmount(top, amount, redeem),
                            done, rnd, geo, recent, redeem)
      IN IF err # NoError THEN FailedResult(err, 0)
         ELSE IF ~r.ok THEN OnWrappedError(top, r)
         ELSE AfterWrapped(top, r, amount, redeem)

\* NewDiscountDecorator's check of its configuration.
NewDiscountDecorator(cfg) ==
    IF cfg.discountValue <= 0
    THEN New(ErrCodeValidation, "discount value must be positive")
    ELSE IF cfg.discountType = "percentage" /\ cfg.discountValue > 100
    THEN New(ErrCodeValidation, "percentage discount cannot exceed 100%")
    ELSE NoError

\* DiscountDecorator.Process of a decorator built from cfg around the
\* instrument `method`; expired: the expiry date is set and has passed.
DiscountProcess(cfg, expired, method, amount, done) ==
    LET finalAmount == AtLeastZero(amount - calculateDiscountOf(cfg, amount))
        r == BaseProcess(method, finalAmount, done)
    IN IF expired
       THEN FailedResult(New(ErrCodeValidation, "discount code has expired"), 0)
       ELSE IF amount < cfg.minAmount
       THEN FailedResult(New(ErrCodeValidation, "minimum amount for discount"), 0)
       ELSE IF ~r.ok THEN OnWrappedError("discount", r)
       ELSE [r EXCEPT !.originalAmount = amount,
                      !.processedAmount = finalAmount,
                      !.amount = finalAmount,
                      !.applied = AppendName(@, "discount")]

\* FraudDetectionDecorator.Process of a decorator built from cfg around the
\* instrument `method`; recorded = 1 when recordTransaction ran.
FraudProcess(cfg, exists, recent, method, amount, done, rnd, geo) ==
    LET r == BaseProcess(method, amount, done)
    IN IF calculateRiskScore(amount, rnd) > cfg.maxRiskScore
       THEN FailedResult(New(ErrCodeFraudDetected, "high fraud risk"), 0)
       ELSE IF velocityCheckOf(exists, recent, cfg.maxTransactionsPerWindow) # NoError
       THEN FailedResult(velocityCheckOf(exists, recent,
                                         cfg.maxTransactionsPerWindow), 0)
       ELSE IF geo
       THEN FailedResult(New(ErrCodeFraudDetected,
                             "geolocation validation failed"), 0)
       ELSE IF ~r.ok THEN OnWrappedError("fraud_detection", r)
       ELSE [r EXCEPT !.recorded = 1,
                      !.applied = AppendName(@, "fraud_detection")]

\* NewLoyaltyPointsDecorator's check of its configuration.
NewLoyaltyPointsDecorator(redeem, available) ==
    IF redeem > available
    THEN New(ErrCodeValidation, "insufficient loyalty points")
    ELSE IF redeem < 0
    THEN New(ErrCodeValidation, "points to redeem cannot be negative")
    ELSE NoError

\* LoyaltyPointsDecorator.Process of a decorator built from cfg around the
\* instrument `method`, amounts in 1/unit of the currency.
LoyaltyProcess(cfg, unit, method, amount, done) ==
    LET discount == loyaltyDiscountOf(cfg.pointsToRedeem, cfg.ratio, unit)
        finalAmount == AtLeastZero(amount - discount)
        pointsEarned == IntOf(amount, unit)
        r == BaseProcessIn(unit, method, finalAmount, done)
    IN IF exceedsMaxRedemptionOf(amount, discount, cfg.maxPct)
       THEN FailedResult(New(ErrCodeValidation,
                             "loyalty points redemption exceeds maximum"), 0)
       ELSE IF ~r.ok THEN OnWrappedError("loyalty_points", r)
       ELSE [balanceAfter |-> cfg.availablePoints - cfg.pointsToRedeem + pointsEarned]
            @@ [r EXCEPT !.originalAmount = KeepOriginal(r, amount),
                         !.processedAmount = finalAmount,
                         !.amount = finalAmount,
                         !.applied = AppendName(@, "loyalty_points"),
                         !.redeemed = cfg.pointsToRedeem,
                         !.earned = pointsEarned]

\* DecoratorFactory.CreateDecoratorChain: fold over the feature names; a
\* disabled feature leaves the payment as it is, an unknown one fails.  The
\* loyalty decorator is also left out when no points are to be redeemed, and
\* its construction fails on points the customer does not have.
KnownDecorators == {"discount", "cashback", "fraud_detection", "tax", "loyalty_points"}

IsKnownDecorator_Any(feature) == TRUE

\* createDecorator's switch has a case for the feature.
IsKnownDecorator(feature) == feature \in KnownDecorators

RECURSIVE CreateDecoratorChain(_, _, _, _)
CreateDecoratorChain(features, enabled, redeem, available) ==
    IF features = <<>> THEN [chain |-> <<>>, err |-> NoError]
    ELSE LET f == features[Len(features)]
             r == CreateDecoratorChain(SubSeq(features, 1, Len(features) - 1),
                                       enabled, redeem, available)
         IN IF r.err # NoError THEN r
            ELSE IF ~IsKnownDecorator(f)
            THEN [chain |-> <<>>,
                  err |-> Errorf("failed to create decorator",
                                 New(ErrCodeValidation, "unsupported decorator"))]
            ELSE IF f \notin enabled
            THEN r
            ELSE IF f = "loyalty_points" /\ redeem = 0
            THEN r
            ELSE IF f = "loyalty_points"
                    /\ NewLoyaltyPointsDecorator(redeem, available) # NoError
            THEN [chain |-> <<>>,
                  err |-> Errorf("failed to create decorator",
                                 NewLoyaltyPointsDecorator(redeem, available))]
            ELSE [chain |-> Append(r.chain, f), err |-> NoError]

\* -------------------------------------------------------------- strategy
SupportedStrategies == {"instant", "deferred", "split"}

CreateStrategy_Lenient(strategyType) == NoError

CreateStrategy(strategyType) ==
    IF strategyType \notin SupportedStrategies
    THEN New(ErrCodeValidation, "unsupported payment strategy")
    ELSE IF strategyType = "split"
    THEN New(ErrCodeValidation, "split strategy must be created with CreateSplitStrategy")
    ELSE NoError

CreateDeferredSchedule_NoInterest(amount, installments, interestRate) ==
    [totalAmount |-> amount,
     payments |-> [i \in 1..installments |-> amount \div installments]]

\* CreateDeferredSchedule: amount * (1 + interestRate/100) / installments for
\* each of the installments.
CreateDeferredSchedule(amount, installments, interestRate) ==
    [totalAmount |-> amount,
     payments |-> [i \in 1..installments |->
                     (amount * (100 + interestRate)) \div (100 * installments)]]

\* StrategyFactory.createInstantStrategy / createDeferredStrategy without
\* parameters.
FactoryStrategyConfig(strategyType) ==
    IF strategyType = "instant"
    THEN [minAmount |-> InstantMinAmount, maxAmount |-> InstantMaxAmount,
          installments |-> 1, interestRate |-> 0]
    ELSE [minAmount |-> DeferredMinAmount, maxAmount |-> DeferredMaxAmount,
          installments |-> DeferredInstallments, interestRate |-> 0]

\* InstantPaymentStrategy.Execute / DeferredPaymentStrategy.Execute of a
\* strategy built with cfg.  strategy, remaining and schedule stand for the
\* payment_strategy and remaining_installments entries of Metadata and for
\* the schedule Execute made.
StrategyExecuteOf(strategyType, cfg, chain, method, amount, done, rnd, geo, recent, redeem) ==
    LET schedule == CreateDeferredSchedule(amount, cfg.installments, cfg.interestRate)
        pay == IF strategyType = "instant" THEN amount ELSE schedule.payments[1]
        msg == IF strategyType = "instant"
               THEN "instant payment processing failed"
               ELSE "deferred payment processing failed"
        tag == [strategy |-> strategyType,
                remaining |-> cfg.installments - 1,
                schedule |-> IF strategyType = "instant" THEN <<>>
                             ELSE schedule.payments]
        r == ChainProcess(chain, method, pay, done, rnd, geo, recent, redeem)
    IN IF AmountValidate(amount, cfg.minAmount, cfg.maxAmount) # NoError
       THEN [processCalls |-> 0]
            @@ FailedResult(AmountValidate(amount, cfg.minAmount, cfg.maxAmount), 0)
       ELSE IF ~r.ok
       THEN [processCalls |-> 1] @@ [r EXCEPT !.err = Wrap(r.err, ErrCodePaymentFailed, msg)]
       ELSE IF strategyType = "instant"
       THEN [processCalls |-> 1] @@ tag @@ r
       ELSE [processCalls |-> 1] @@ tag @@
            [r EXCEPT !.originalAmount = amount, !.amount = pay,
                      !.processedAmount = pay]

\* The same for the strategies the facade gets from the factory.
StrategyExecute(strategyType, chain, method, amount, done, rnd, geo, recent, redeem) ==
    StrategyExecuteOf(strategyType, FactoryStrategyConfig(strategyType), chain,
                      method, amount, done, rnd, geo, recent, redeem)

\* ------------------------------------------------------------------ state
VARIABLES
    config,        \* Payment.RetryAttempts and the decorators' enable flags
    stock,         \* repository: Product.Stock by product id
    transactions,  \* repository: persisted Transaction by id
    cart,          \* Cart.Items of the customer's cart
    nextId,        \* the next id domain.NewID hands out
    pc,            \* position of the ProcessOrder call in progress
    opts,          \* CheckoutOptions of the call
    ctxDone,       \* the call's context is cancelled or past its deadline
    tx,            \* the call's Transaction
    chain,         \* decorator chain built for the call
    velocity,      \* timestamps recorded by the chain's fraud decorator
    attempt,       \* loop counter of executeWithRetry
    lastErr,       \* lastErr of executeWithRetry
    result,        \* PaymentResult of the successful attempt
    ret,           \* what ProcessOrder returned: receipt and error
    emitted,       \* events handed to notifyEvent, in order
    obs,           \* observation of the call: snapshots, call logs
    loyalty,       \* repository: the customer's LoyaltyPoints
    tasks          \* the detached notification task of each emitted event

VARIABLES
    observers,     \* Subject.observers
    mu,            \* Subject.mu: who holds the read-write lock
    mut,           \* the thread that calls Attach and Detach
    cyc            \* the Subject.Notify call in progress and its goroutines

VARIABLES
    call,          \* a Process call on a decorator chain: its arguments
    reply          \* what that call returned

subjectVars == <<observers, mu, mut, cyc>>
chainVars == <<call, reply>>
nonFacade == <<subjectVars, chainVars>>

facadeVars == <<config, stock, transactions, cart, nextId, pc, opts, ctxDone, tx,
                chain, velocity, attempt, lastErr, result, ret, emitted, obs,
                loyalty>>

vars == <<facadeVars, tasks, subjectVars, chainVars>>

TransactionStatusPending == "pending"
TransactionStatusCompleted == "completed"
TransactionStatusFailed == "failed"
EventPaymentStarted == "payment_started"
EventPaymentSuccess == "payment_success"
EventPaymentFailed == "payment_failed"

NoTx == [id |-> 0, customerID |-> "", amount |-> 0, status |-> "",
         paymentMethod |-> "", errorMessage |-> <<>>]
NoOpts == [method |-> "", strategy |-> "", decorators |-> <<>>,
           useLoyaltyPoints |-> 0]
NoResult == [ok |-> FALSE]
NoRet == [receipt |-> [present |-> FALSE], err |-> NoError]
NoObs == [stock0 |-> InitialStock, cart0 |-> <<>>, stage |-> "",
          reserveCalls |-> <<>>, releaseCalls |-> <<>>, execLog |-> <<>>,
          processCalls |-> 0, baseCalls |-> 0, createCalls |-> 0,
          accepted |-> FALSE, retryEntered |-> FALSE, emitted0 |-> 0,
          statusLog |-> <<>>, loyalty0 |-> 0, loyaltyCalls |-> 0,
          transactions0 |-> <<>>, charges |-> 0]

\* The option sets a checkout is tried with.
Methods == {"credit_card", "paypal", "cash"}
Strategies == {"", "instant", "deferred", "split", "weekly"}
DecoratorLists == {<<>>, <<"fraud_detection">>, <<"discount">>,
                   <<"discount", "fraud_detection">>,
                   <<"fraud_detection", "discount">>, <<"coupon">>}
OptionSet ==
    {o \in [method : Methods, strategy : Strategies, decorators : DecoratorLists,
            useLoyaltyPoints : {0}] :
        \/ o.method = "credit_card" /\ o.strategy = ""
        \/ o.method = "credit_card" /\ o.strategy = "deferred"
              /\ o.decorators \in {<<>>, <<"fraud_detection">>}
        \/ o.method = "credit_card" /\ o.decorators = <<>>
        \/ o.strategy = "" /\ o.decorators = <<>>}

\* The checkouts that ask for the loyalty decorator, with the points to
\* redeem: none, all the customer starts with, twice that.
RedeemChoices == {0, InitialLoyaltyPoints, 2 * InitialLoyaltyPoints}
LoyaltyOptionSet ==
    {o \in [method : {"credit_card"}, strategy : {"", "deferred"},
            decorators : {<<>>, <<"loyalty_points">>,
                          <<"loyalty_points", "fraud_detection">>},
            useLoyaltyPoints : RedeemChoices] :
        /\ o.decorators = <<>> => o.useLoyaltyPoints = 0
        /\ o.strategy = "deferred" => o.decorators = <<"loyalty_points">>}

\* The calls that are made with a context that is already cancelled.
CancelledSet ==
    {o \in OptionSet :
        /\ o.method = "credit_card"
        /\ o.strategy \in {"", "split"}
        /\ o.decorators \in {<<>>, <<"fraud_detection">>, <<"coupon">>}}

\* The configurations the facade is built with: every retry count with all
\* modelled decorators enabled, and one with the discount switched off.
ConfigSet ==
    [retryAttempts : 0..MaxRetryAttempts,
     enabled : {{"discount", "fraud_detection", "loyalty_points"}}]
    \cup [retryAttempts : {1}, enabled : {{"fraud_detection"}}]

\* No Subject call and no chain call is in progress.
NoLock == [writer |-> FALSE, readers |-> 0]
NoLast == [op |-> "", name |-> "", k |-> 0, attached |-> FALSE]
NoMut == [pc |-> "idle", op |-> "", name |-> "", last |-> NoLast]
NoCycle == [pc |-> "idle", atCall |-> <<>>, prev |-> NoLast, quiet |-> TRUE,
            snapshot |-> <<>>, g |-> <<>>, wg |-> 0]
NoCall == [kind |-> ""]
NoReply == [ok |-> FALSE]

SubjectIdle ==
    /\ observers = <<>>
    /\ mu = NoLock
    /\ mut = NoMut
    /\ cyc = NoCycle

ChainIdle ==
    /\ call = NoCall
    /\ reply = NoReply

FacadeInit ==
    /\ config \in ConfigSet
    /\ stock = InitialStock
    /\ transactions = <<>>
    /\ cart = <<>>
    /\ nextId = 1
    /\ pc = "idle"
    /\ opts = NoOpts
    /\ ctxDone = FALSE
    /\ tx = NoTx
    /\ chain = <<>>
    /\ velocity = 0
    /\ attempt = 0
    /\ lastErr = NoError
    /\ result = NoResult
    /\ ret = NoRet
    /\ emitted = <<>>
    /\ obs = NoObs
    /\ loyalty = InitialLoyaltyPoints
    /\ tasks = <<>>

Init ==
    /\ FacadeInit
    /\ SubjectIdle
    /\ ChainIdle

Event_LostId(type, t) == [type |-> type, transactionID |-> 0,
                          customerID |-> t.customerID]

Event(type, t) == [type |-> type, transactionID |-> t.id,
                   customerID |-> t.customerID]

notifyReturns_Joined(ts) == \A i \in 1..Len(ts) : ts[i] # "running"

\* notifyEvent's go statement returns to ProcessOrder at once, whatever the
\* tasks started so far are doing.
notifyReturns(ts) == TRUE

notifyEvent_Front(ev) ==
    /\ emitted' = <<ev>> \o emitted
    /\ tasks' = <<"running">> \o tasks

\* notifyEvent: the event is handed to a detached task, which starts
\* running on its own.
notifyEvent(ev) ==
    /\ emitted' = Append(emitted, ev)
    /\ tasks' = Append(tasks, "running")

handleError_KeepsPending(err, message, o) ==
    /\ tx' = [tx EXCEPT !.errorMessage = ErrorText(err)]
    /\ notifyEvent(Event(EventPaymentFailed, tx))
    /\ ret' = [receipt |-> [present |-> FALSE],
               err |-> Wrap(err, ErrCodePaymentFailed, message)]
    /\ obs' = [o EXCEPT !.stage = message, !.statusLog = Append(@, tx.status)]
    /\ pc' = "done"

\* handleError followed by ProcessOrder's return of its value.
handleError(err, message, o) ==
    /\ tx' = [tx EXCEPT !.status = TransactionStatusFailed,
                        !.errorMessage = ErrorText(err)]
    /\ notifyEvent(Event(EventPaymentFailed, tx))
    /\ ret' = [receipt |-> [present |-> FALSE],
               err |-> Wrap(err, ErrCodePaymentFailed, message)]
    /\ obs' = [o EXCEPT !.stage = message,
                        !.statusLog = Append(@, TransactionStatusFailed)]
    /\ pc' = "done"

\* ----------------------------------------------------------------- actions
\* cart add: CartService.AddItem -> Cart.AddItem
AddItem(p, q) ==
    /\ pc = "idle"
    /\ nextId <= MaxOrders
    /\ \A i \in 1..Len(cart) : cart[i].productID = p => cart[i].quantity + q <= MaxQty
    /\ p = MissingProduct => (q = 1 /\ \A i \in 1..Len(cart) : cart[i].productID # p)
    /\ cart' = CartAddItem(cart, p, q)
    /\ UNCHANGED <<config, stock, transactions, nextId, pc, opts, ctxDone, tx,
                   chain, velocity, attempt, lastErr, result, ret, emitted, tasks, obs>>
    /\ UNCHANGED <<loyalty, nonFacade>>

\* ProcessOrder, up to the started event (lines 55-79).
BeginOrder(o, cancelled) ==
    /\ pc = "idle"
    /\ nextId <= MaxOrders
    /\ opts' = o
    /\ ctxDone' = cancelled
    /\ tx' = [id |-> nextId, customerID |-> CustomerID, amount |-> GetTotal(cart),
              status |-> TransactionStatusPending, paymentMethod |-> o.method,
              errorMessage |-> <<>>]
    /\ nextId' = nextId + 1
    /\ notifyEvent(Event(EventPaymentStarted, tx'))
    /\ obs' = [NoObs EXCEPT !.stock0 = stock, !.cart0 = cart,
                            !.emitted0 = Len(emitted),
                            !.loyalty0 = loyalty,
                            !.transactions0 = transactions,
                            !.statusLog = <<TransactionStatusPending>>]
    /\ chain' = <<>>
    /\ velocity' = 0
    /\ attempt' = 0
    /\ lastErr' = NoError
    /\ result' = NoResult
    /\ ret' = NoRet
    /\ pc' = "validate"
    /\ UNCHANGED <<config, stock, transactions, cart>>
    /\ UNCHANGED <<loyalty, nonFacade>>

\* The payment timeout expires, or the caller cancels, during strategy
\* execution (a signal before it is BeginOrder's cancelled).
CtxExpire ==
    /\ pc = "attempt"
    /\ ~ctxDone
    /\ ctxDone' = TRUE
    /\ UNCHANGED <<config, stock, transactions, cart, nextId, pc, opts, tx, chain,
                   velocity, attempt, lastErr, result, ret, emitted, tasks, obs>>
    /\ UNCHANGED <<loyalty, nonFacade>>

\* ProcessOrder lines 81-83.
ValidateInventory ==
    /\ pc = "validate"
    /\ notifyReturns(tasks)
    /\ LET err == validateInventory(stock, cart)
       IN IF err # NoError
          THEN handleError(err, "inventory validation failed", obs)
          ELSE /\ pc' = "reserve"
               /\ UNCHANGED <<tx, ret, emitted, tasks, obs>>
    /\ UNCHANGED <<config, stock, transactions, cart, nextId, opts, ctxDone,
                   chain, velocity, attempt, lastErr, result>>
    /\ UNCHANGED <<loyalty, nonFacade>>

ReserveInventory_Releases ==
    /\ pc = "reserve"
    /\ LET r == reserveInventory(stock, cart, <<>>)
           o == [obs EXCEPT !.reserveCalls = r.calls]
       IN IF r.err # NoError
          THEN /\ stock' = stock
               /\ handleError(r.err, "inventory reservation failed", o)
          ELSE /\ stock' = r.stock
               /\ pc' = "payment"
               /\ obs' = o
               /\ UNCHANGED <<tx, ret, emitted, tasks>>
    /\ UNCHANGED <<config, transactions, cart, nextId, opts, ctxDone,
                   chain, velocity, attempt, lastErr, result>>
    /\ UNCHANGED <<loyalty, nonFacade>>

\* ProcessOrder lines 85-87.
ReserveInventory ==
    /\ pc = "reserve"
    /\ LET r == reserveInventory(stock, cart, <<>>)
           o == [obs EXCEPT !.reserveCalls = r.calls]
       IN /\ stock' = r.stock
          /\ IF r.err # NoError
             THEN handleError(r.err, "inventory reservation failed", o)
             ELSE /\ pc' = "payment"
                  /\ obs' = o
                  /\ UNCHANGED <<tx, ret, emitted, tasks>>
    /\ UNCHANGED <<config, transactions, cart, nextId, opts, ctxDone,
                   chain, velocity, attempt, lastErr, result>>
    /\ UNCHANGED <<loyalty, nonFacade>>

\* rollbackInventory then handleError: the failure path after reservation.
failAfterReserve(err, message, o) ==
    LET r == rollbackInventory(stock, cart, <<>>)
    IN /\ stock' = r.stock
       /\ handleError(err, message, [o EXCEPT !.releaseCalls = r.calls])

\* ProcessOrder lines 89-93.
CreatePaymentStep ==
    /\ pc = "payment"
    /\ LET err == CreatePayment(opts.method)
       IN IF err # NoError
          THEN failAfterReserve(err, "payment creation failed", obs)
          ELSE /\ pc' = "decorate"
               /\ UNCHANGED <<stock, tx, ret, emitted, tasks, obs>>
    /\ UNCHANGED <<config, transactions, cart, nextId, opts, ctxDone,
                   chain, velocity, attempt, lastErr, result>>
    /\ UNCHANGED <<loyalty, nonFacade>>

\* ProcessOrder lines 95-99.
ApplyDecorators ==
    /\ pc = "decorate"
    /\ LET r == CreateDecoratorChain(opts.decorators, config.enabled,
                                     opts.useLoyaltyPoints, loyalty)
       IN IF r.err # NoError
          THEN /\ failAfterReserve(r.err, "decorator application failed", obs)
               /\ UNCHANGED chain
          ELSE /\ chain' = r.chain
               /\ pc' = "strategy"
               /\ UNCHANGED <<stock, tx, ret, emitted, tasks, obs>>
    /\ UNCHANGED <<config, transactions, cart, nextId, opts, ctxDone,
                   velocity, attempt, lastErr, result>>
    /\ UNCHANGED <<loyalty, nonFacade>>

strategyType == IF opts.strategy = "" THEN "instant" ELSE opts.strategy

loopContinues_OneMore(att, retryAttempts) == att <= retryAttempts + 1

\* The loop condition of executeWithRetry (line 268).
loopContinues(att, retryAttempts) == att <= retryAttempts

\* executePaymentStrategy up to the call of executeWithRetry (lines 233-257).
ExecutePaymentStrategy ==
    /\ pc = "strategy"
    /\ LET err == CreateStrategy(strategyType)
       IN IF err # NoError
          THEN failAfterReserve(err, "payment processing failed", obs)
          ELSE /\ pc' = IF loopContinues(0, config.retryAttempts)
                         THEN "attempt" ELSE "failed"
               /\ obs' = [obs EXCEPT !.retryEntered = TRUE]
               /\ UNCHANGED <<stock, tx, ret, emitted, tasks>>
    /\ attempt' = 0
    /\ lastErr' = NoError
    /\ UNCHANGED <<config, transactions, cart, nextId, opts, ctxDone,
                   chain, velocity, result>>
    /\ UNCHANGED <<loyalty, nonFacade>>

\* Whether executeWithRetry leaves its loop on this error (lines 283-286).
IsNonRetryable(err) ==
    \/ IsErrorCode(err, ErrCodeFraudDetected)
    \/ IsErrorCode(err, ErrCodeInvalidPayment)

\* One iteration of the loop of executeWithRetry (lines 268-287).
Attempt(rnd, geo) ==
    /\ pc = "attempt"
    /\ LET r == StrategyExecute(strategyType, chain, opts.method, tx.amount,
                                ctxDone, rnd, geo, velocity,
                                opts.useLoyaltyPoints)
           o == [obs EXCEPT
                   !.execLog = Append(@, [ctxDone |-> ctxDone, ok |-> r.ok,
                                          err |-> r.err, chain |-> chain,
                                          txid |-> tx.id, attempt |-> attempt]),
                   !.processCalls = @ + r.processCalls,
                   !.baseCalls = @ + r.baseCalls,
                   !.charges = @ + (IF r.charged > 0 THEN 1 ELSE 0)]
       IN /\ obs' = o
          /\ velocity' = velocity + r.recorded
          /\ IF r.ok
             THEN /\ result' = r
                  /\ pc' = "complete"
                  /\ UNCHANGED <<attempt, lastErr>>
             ELSE /\ lastErr' = r.err
                  /\ UNCHANGED result
                  /\ IF IsNonRetryable(r.err)
                     THEN pc' = "failed" /\ UNCHANGED attempt
                     ELSE /\ attempt' = attempt + 1
                          /\ pc' = IF loopContinues(attempt + 1, config.retryAttempts)
                                   THEN "attempt" ELSE "failed"
    /\ UNCHANGED <<config, stock, transactions, cart, nextId, opts, ctxDone, tx,
                   chain, ret, emitted, tasks>>
    /\ UNCHANGED <<loyalty, nonFacade>>

\* executeWithRetry returned lastErr: ProcessOrder lines 102-105.
PaymentFailed ==
    /\ pc = "failed"
    /\ failAfterReserve(lastErr, "payment processing failed", obs)
    /\ UNCHANGED <<config, transactions, cart, nextId, opts, ctxDone, chain,
                   velocity, attempt, lastErr, result>>
    /\ UNCHANGED <<loyalty, nonFacade>>

UpdateLoyaltyPoints_NoRedeem(balance, earned, redeemed) == balance + earned

\* CustomerService.UpdateLoyaltyPoints
UpdateLoyaltyPoints(balance, earned, redeemed) == balance + earned - redeemed

\* Whether updateLoyaltyPoints calls the customer service for this result.
reportsLoyalty(r) == r.earned > 0 \/ r.redeemed > 0

\* CheckoutFacade.updateLoyaltyPoints
updateLoyaltyPoints(balance, r) ==
    IF reportsLoyalty(r)
    THEN UpdateLoyaltyPoints(balance, r.earned, r.redeemed)
    ELSE balance

Clear_KeepsItems(items) == items

\* Cart.Clear
Clear(items) == <<>>

\* MemoryRepository.GetCartByCustomer: the repository's map holds the pointer
\* of the one Cart object, the same the caller hands to ProcessOrder.
GetCartByCustomer(customerID) == IF customerID = CustomerID THEN cart ELSE <<>>

\* generateReceipt's copy of the cart lines.
ReceiptItems(items) ==
    [i \in 1..Len(items) |->
        [productID |-> items[i].productID, quantity |-> items[i].quantity,
         unitPrice |-> items[i].price,
         total |-> items[i].price * items[i].quantity]]

CreateTransaction_Drop(txs, t) == [transactions |-> txs, err |-> NoError]

\* MemoryRepository.CreateTransaction
CreateTransaction(txs, t) ==
    IF t.id \in DOMAIN txs
    THEN [transactions |-> txs, err |-> New(ErrCodeAlreadyExists, "transaction already exists")]
    ELSE [transactions |-> txs @@ (t.id :> t), err |-> NoError]

ErrorAfterPayment_Returned(err) == err

\* ProcessOrder lines 111-125: an error of updateLoyaltyPoints or of
\* CreateTransaction is logged, the call goes on to return the receipt.
ErrorAfterPayment(err) == NoError

\* ProcessOrder lines 107-144; accepts = the repository takes the write.
Complete(accepts) ==
    /\ pc = "complete"
    /\ LET t == [tx EXCEPT !.status = TransactionStatusCompleted]
           w == CreateTransaction(transactions, t)
       IN /\ tx' = t
          /\ loyalty' = updateLoyaltyPoints(loyalty, result)
          /\ ret' = [receipt |-> [present |-> TRUE, transactionID |-> t.id,
                                  customerID |-> CustomerID,
                                  items |-> ReceiptItems(cart),
                                  subtotal |-> GetTotal(cart),
                                  loyaltyPoints |-> result.earned,
                                  total |-> result.amount,
                                  appliedDecorators |-> result.applied],
                     err |-> ErrorAfterPayment(
                                 IF accepts THEN w.err
                                 ELSE New(ErrCodeInternalError,
                                          "failed to save transaction"))]
          /\ transactions' = IF accepts THEN w.transactions ELSE transactions
          /\ obs' = [obs EXCEPT !.createCalls = @ + 1, !.stage = "completed",
                                !.statusLog = Append(@, TransactionStatusCompleted),
                                !.accepted = accepts /\ w.err = NoError,
                                !.loyaltyCalls =
                                    @ + (IF reportsLoyalty(result) THEN 1 ELSE 0)]
          /\ cart' = Clear(cart)
          /\ notifyEvent(Event(EventPaymentSuccess, t))
          /\ pc' = "done"
    /\ UNCHANGED <<config, stock, nextId, opts, ctxDone, chain, velocity,
                   attempt, lastErr, result>>
    /\ UNCHANGED nonFacade

\* The caller takes the returned value; the next command may start.
Return ==
    /\ pc = "done"
    /\ notifyReturns(tasks)
    /\ pc' = "idle"
    /\ opts' = NoOpts
    /\ ctxDone' = FALSE
    /\ tx' = NoTx
    /\ chain' = <<>>
    /\ velocity' = 0
    /\ attempt' = 0
    /\ lastErr' = NoError
    /\ result' = NoResult
    /\ ret' = NoRet
    /\ obs' = NoObs
    /\ UNCHANGED <<config, stock, transactions, cart, nextId, emitted, tasks>>
    /\ UNCHANGED <<loyalty, nonFacade>>

Next ==
    \/ \E p \in Products \cup {MissingProduct}, q \in 1..MaxQty : AddItem(p, q)
    \/ \E o \in OptionSet, c \in BOOLEAN :
          (c => o \in CancelledSet) /\ BeginOrder(o, c)
    \/ CtxExpire
    \/ ValidateInventory
    \/ ReserveInventory
    \/ CreatePaymentStep
    \/ ApplyDecorators
    \/ ExecutePaymentStrategy
    \/ \E rnd \in RandScores, geo \in BOOLEAN : Attempt(rnd, geo)
    \/ PaymentFailed
    \/ \E a \in BOOLEAN : Complete(a)
    \/ Return

Spec == Init /\ [][Next]_vars

\* The steps of a ProcessOrder call that take no input.
FacadeStep ==
    \/ ValidateInventory
    \/ ReserveInventory
    \/ CreatePaymentStep
    \/ ApplyDecorators
    \/ ExecutePaymentStrategy
    \/ \E rnd \in RandScores, geo \in BOOLEAN : Attempt(rnd, geo)
    \/ PaymentFailed
    \/ \E a \in BOOLEAN : Complete(a)
    \/ Return

\* Checkouts that redeem and earn loyalty points.
InitLoyalty ==
    /\ Init
    /\ config.retryAttempts <= 1
    /\ "loyalty_points" \in config.enabled

NextLoyalty ==
    \/ \E p \in Products, q \in 1..MaxQty : AddItem(p, q)
    \/ \E o \in LoyaltyOptionSet : BeginOrder(o, FALSE)
    \/ CtxExpire
    \/ ValidateInventory
    \/ ReserveInventory
    \/ CreatePaymentStep
    \/ ApplyDecorators
    \/ ExecutePaymentStrategy
    \/ \E rnd \in RandScores, geo \in BOOLEAN : Attempt(rnd, geo)
    \/ PaymentFailed
    \/ \E a \in BOOLEAN : Complete(a)
    \/ Return

SpecLoyalty == InitLoyalty /\ [][NextLoyalty]_vars

\* Checkouts that ask for a feature the decorator factory does not know,
\* before, between and after features it knows, enabled or not.
FeatureLists ==
    {<<>>, <<"discount">>, <<"coupon">>, <<"coupon", "fraud_detection">>,
     <<"discount", "coupon">>, <<"fraud_detection", "coupon", "discount">>}

FeatureOptionSet ==
    [method : {"credit_card", "cash"}, strategy : {""}, decorators : FeatureLists,
     useLoyaltyPoints : {0}]

InitFeatures ==
    /\ Init
    /\ config.retryAttempts <= 1

NextFeatures ==
    \/ \E p \in Products, q \in 1..MaxQty : AddItem(p, q)
    \/ \E o \in FeatureOptionSet : BeginOrder(o, FALSE)
    \/ CtxExpire
    \/ FacadeStep

SpecFeatures == InitFeatures /\ [][NextFeatures]_vars

\* Checkouts during which another caller of the inventory service reserves
\* stock: between this call's validateInventory and its reserveInventory,
\* ReserveStock(p, q) of the other caller goes through.  obs.stock0 follows
\* it, so that it is the stock this call's reservation starts from.
StockTaken(p, q) ==
    /\ pc = "reserve"
    /\ ReserveStock(stock, p, q).err = NoError
    /\ stock' = ReserveStock(stock, p, q).stock
    /\ obs' = [obs EXCEPT !.stock0 = stock']
    /\ UNCHANGED <<config, transactions, cart, nextId, pc, opts, ctxDone, tx,
                   chain, velocity, attempt, lastErr, result, ret, emitted, tasks>>
    /\ UNCHANGED <<loyalty, nonFacade>>

ReserveOptionSet ==
    [method : {"credit_card"}, strategy : {""}, decorators : {<<>>},
     useLoyaltyPoints : {0}]

InitReserve ==
    /\ Init
    /\ config.retryAttempts = 0

NextReserve ==
    \/ \E p \in Products, q \in 1..MaxQty : AddItem(p, q)
    \/ \E o \in ReserveOptionSet : BeginOrder(o, FALSE)
    \/ \E p \in Products, q \in 1..MaxQty : StockTaken(p, q)
    \/ FacadeStep

SpecReserve == InitReserve /\ [][NextReserve]_vars

\* Successive checkouts of one customer, all with fraud detection, all
\* inside one velocity window.
WindowOptionSet ==
    [method : {"credit_card"}, strategy : {"", "deferred"},
     decorators : {<<"fraud_detection">>}, useLoyaltyPoints : {0}]

InitWindow ==
    /\ Init
    /\ config.retryAttempts <= 1
    /\ "fraud_detection" \in config.enabled

NextWindow ==
    \/ \E p \in Products, q \in 1..MaxQty : AddItem(p, q)
    \/ \E o \in WindowOptionSet : BeginOrder(o, FALSE)
    \/ CtxExpire
    \/ FacadeStep

SpecWindow == InitWindow /\ [][NextWindow]_vars

\* ------------------------------------------------------------ event subject
\* The observers that can be attached, by GetName().
ObserverNames == {"email", "sms"}

\* What an observer's Notify does once it is running: return nil, return an
\* error, or panic.  An observer that never returns stays "running".
Outcomes == {"ok", "err", "panic"}

\* Subject.Attach, between Lock and Unlock.
Attach(list, name) == Append(list, name)

\* The first index of list that holds name, 0 when there is none.
IndexOf(list, name) ==
    IF \E i \in 1..Len(list) : list[i] = name
    THEN CHOOSE i \in 1..Len(list) :
            list[i] = name /\ \A j \in 1..(i - 1) : list[j] # name
    ELSE 0

Detach_KeepsAll(list, name) == list

\* Subject.Detach, between Lock and Unlock: the first observer of that name
\* is cut out of the slice.
Detach(list, name) ==
    IF IndexOf(list, name) = 0 THEN list
    ELSE SubSeq(list, 1, IndexOf(list, name) - 1)
         \o SubSeq(list, IndexOf(list, name) + 1, Len(list))

\* The list holds no observer name twice.
Distinct(list) == \A i, j \in 1..Len(list) : list[i] = list[j] => i = j

Names(list) == {list[i] : i \in 1..Len(list)}

\* sync.RWMutex
CanLock(m) == ~m.writer /\ m.readers = 0
CanRLock(m) == ~m.writer

LoopList_Live(c) == observers

\* The slice Notify ranges over: its own copy of s.observers.
LoopList(c) == c.snapshot

AfterInvoke_NoRecover(outcome) ==
    IF outcome = "panic" THEN "crashed"
    ELSE IF outcome = "err" THEN "failed" ELSE "ok"

\* How the goroutine of one observer ends: a panic is recovered and logged,
\* an error is logged.
AfterInvoke(outcome) ==
    IF outcome = "panic" THEN "recovered"
    ELSE IF outcome = "err" THEN "failed" ELSE "ok"

WaitDone_Early(c) == TRUE

\* wg.Wait() returns when the counter is zero.
WaitDone(c) == c.wg = 0

\* An unrecovered panic ends the process.
Crashed == \E k \in 1..Len(cyc.g) : cyc.g[k].st = "crashed"

CycleRunning == cyc.pc \notin {"idle", "returned"}

\* A thread calls Attach or Detach and takes the write lock.  A Notify
\* call in progress is no longer one that ran alone (quiet); what it saw at
\* its call is kept for those only.
MutLock(op, name) ==
    /\ ~Crashed
    /\ mut.pc = "idle"
    /\ cyc.pc # "returned"
    /\ CanLock(mu)
    /\ op = "attach" => Len(observers) < MaxObservers
    /\ mu' = [mu EXCEPT !.writer = TRUE]
    /\ mut' = [mut EXCEPT !.pc = "locked", !.op = op, !.name = name]
    /\ cyc' = IF CycleRunning
              THEN [cyc EXCEPT !.quiet = FALSE, !.atCall = <<>>, !.prev = NoLast]
              ELSE cyc
    /\ UNCHANGED <<observers, facadeVars, tasks, chainVars>>

\* What is remembered of a finished Attach or Detach call: of the Detach of
\* an observer attached to a list of k distinct names, that observer and k.
Finished(op, name, list) ==
    IF op = "detach" /\ Distinct(list) /\ name \in Names(list)
    THEN [op |-> op, name |-> name, k |-> Len(list), attached |-> TRUE]
    ELSE [op |-> op, name |-> "", k |-> 0, attached |-> FALSE]

\* The body of Attach or Detach, and the deferred Unlock.
MutBody ==
    /\ ~Crashed
    /\ mut.pc = "locked"
    /\ observers' = IF mut.op = "attach" THEN Attach(observers, mut.name)
                    ELSE Detach(observers, mut.name)
    /\ mu' = [mu EXCEPT !.writer = FALSE]
    /\ mut' = [mut EXCEPT !.pc = "idle",
                          !.last = Finished(mut.op, mut.name, observers)]
    /\ UNCHANGED <<cyc, facadeVars, tasks, chainVars>>

\* Subject.Notify is called.  atCall and prev record, for a call made while
\* no Attach or Detach is running, the observer list and the last Attach or
\* Detach before it.
NotifyCall ==
    /\ ~Crashed
    /\ cyc.pc \in {"idle", "returned"}
    /\ cyc' = IF mut.pc = "idle"
              THEN [NoCycle EXCEPT !.pc = "rlock", !.atCall = observers,
                                   !.prev = mut.last]
              ELSE [NoCycle EXCEPT !.pc = "rlock", !.quiet = FALSE]
    /\ UNCHANGED <<observers, mu, mut, facadeVars, tasks, chainVars>>

\* s.mu.RLock()
RLock ==
    /\ ~Crashed
    /\ cyc.pc = "rlock"
    /\ CanRLock(mu)
    /\ mu' = [mu EXCEPT !.readers = @ + 1]
    /\ cyc' = [cyc EXCEPT !.pc = "rlocked"]
    /\ UNCHANGED <<observers, mut, facadeVars, tasks, chainVars>>

\* make and copy
Copy ==
    /\ ~Crashed
    /\ cyc.pc = "rlocked"
    /\ cyc' = [cyc EXCEPT !.pc = "copied", !.snapshot = observers]
    /\ UNCHANGED <<observers, mu, mut, facadeVars, tasks, chainVars>>

\* s.mu.RUnlock()
RUnlock ==
    /\ ~Crashed
    /\ cyc.pc = "copied"
    /\ mu' = [mu EXCEPT !.readers = @ - 1]
    /\ cyc' = [cyc EXCEPT !.pc = "dispatch"]
    /\ UNCHANGED <<observers, mut, facadeVars, tasks, chainVars>>

\* One iteration of the dispatch loop: wg.Add(1) and the go statement; the
\* loop ends after as many iterations as the snapshot has entries.
Spawn ==
    /\ ~Crashed
    /\ cyc.pc = "dispatch"
    /\ Len(cyc.g) < Len(cyc.snapshot)
    /\ Len(cyc.g) < Len(LoopList(cyc))
    /\ cyc' = [cyc EXCEPT
                 !.g = Append(@, [obs |-> LoopList(cyc)[Len(cyc.g) + 1],
                                  st |-> "spawned", calls |-> 0]),
                 !.wg = @ + 1]
    /\ UNCHANGED <<observers, mu, mut, facadeVars, tasks, chainVars>>

\* The loop is over; Notify goes on to wg.Wait().
LoopEnd ==
    /\ ~Crashed
    /\ cyc.pc = "dispatch"
    /\ \/ Len(cyc.g) >= Len(cyc.snapshot)
       \/ Len(cyc.g) >= Len(LoopList(cyc))
    /\ cyc' = [cyc EXCEPT !.pc = "wait"]
    /\ UNCHANGED <<observers, mu, mut, facadeVars, tasks, chainVars>>

\* The goroutine of entry k calls obs.Notify.
Invoke(k) ==
    /\ ~Crashed
    /\ k \in 1..Len(cyc.g)
    /\ cyc.g[k].st = "spawned"
    /\ cyc' = [cyc EXCEPT !.g[k].st = "running", !.g[k].calls = @ + 1]
    /\ UNCHANGED <<observers, mu, mut, facadeVars, tasks, chainVars>>

\* obs.Notify ends; the deferred recover and wg.Done() run.
Finish(k, outcome) ==
    /\ ~Crashed
    /\ k \in 1..Len(cyc.g)
    /\ cyc.g[k].st = "running"
    /\ cyc' = [cyc EXCEPT !.g[k].st = AfterInvoke(outcome),
                          !.wg = IF AfterInvoke(outcome) = "crashed"
                                 THEN @ ELSE @ - 1]
    /\ UNCHANGED <<observers, mu, mut, facadeVars, tasks, chainVars>>

\* wg.Wait() returns and Notify returns to its caller.
Wait ==
    /\ ~Crashed
    /\ cyc.pc = "wait"
    /\ WaitDone(cyc)
    /\ cyc' = [cyc EXCEPT !.pc = "returned"]
    /\ UNCHANGED <<observers, mu, mut, facadeVars, tasks, chainVars>>

\* The facade at rest, with one configuration.
FacadeIdle ==
    /\ FacadeInit
    /\ config.retryAttempts = 0

InitSubject ==
    /\ FacadeIdle
    /\ SubjectIdle
    /\ ChainIdle

NextSubject ==
    \/ \E op \in {"attach", "detach"}, name \in ObserverNames : MutLock(op, name)
    \/ MutBody
    \/ NotifyCall
    \/ RLock
    \/ Copy
    \/ RUnlock
    \/ Spawn
    \/ LoopEnd
    \/ \E k \in 1..MaxObservers : Invoke(k)
    \/ \E k \in 1..MaxObservers, outcome \in Outcomes : Finish(k, outcome)
    \/ Wait

SpecSubject == InitSubject /\ [][NextSubject]_vars

\* Every started step of Notify and of its goroutines is eventually taken,
\* every observer's Notify ends, and a holder of the lock releases it.  A
\* reader that waits for the lock gets it (sync.RWMutex lets the readers
\* that wait through when the writer unlocks).
SubjectFairness ==
    /\ SF_vars(RLock)
    /\ WF_vars(Copy)
    /\ WF_vars(RUnlock)
    /\ WF_vars(Spawn)
    /\ WF_vars(LoopEnd)
    /\ WF_vars(Wait)
    /\ WF_vars(MutBody)
    /\ \A k \in 1..MaxObservers :
          /\ WF_vars(Invoke(k))
          /\ WF_vars(\E outcome \in Outcomes : Finish(k, outcome))

\* One Notify call against a Subject whose list is being changed.
NotifyOnce ==
    /\ cyc.pc = "idle"
    /\ NotifyCall

\* Attach or Detach is called while the Notify call is in progress.
MutDuring(op, name) ==
    /\ CycleRunning
    /\ MutLock(op, name)

\* The lists earlier Attach calls can have left in the Subject.
AttachedLists ==
    UNION {[1..n -> ObserverNames] : n \in 0..MaxObservers}

InitSubjectOnce ==
    /\ FacadeIdle
    /\ observers \in AttachedLists
    /\ mu = NoLock
    /\ mut = NoMut
    /\ cyc = NoCycle
    /\ ChainIdle

NextSubjectOnce ==
    \/ \E op \in {"attach", "detach"}, name \in ObserverNames : MutDuring(op, name)
    \/ MutBody
    \/ NotifyOnce
    \/ RLock
    \/ Copy
    \/ RUnlock
    \/ Spawn
    \/ LoopEnd
    \/ \E k \in 1..MaxObservers : Invoke(k)
    \/ \E k \in 1..MaxObservers, outcome \in Outcomes : Finish(k, outcome)
    \/ Wait

SpecSubjectFair == InitSubjectOnce /\ [][NextSubjectOnce]_vars /\ SubjectFairness

\* ------------------------------------------------- detached notifications
\* The detached task of event i ends: eventSubject.Notify returned after its
\* observers returned nil, returned an error, or panicked and were recovered.
\* A task whose observer never returns takes no such step.  The observers
\* (email, SMS, audit log, metrics) write their own fields only.
ObserverTask(i, outcome) ==
    /\ i \in 1..Len(tasks)
    /\ tasks[i] = "running"
    /\ tasks' = [tasks EXCEPT ![i] = AfterInvoke(outcome)]
    /\ UNCHANGED <<facadeVars, nonFacade>>

\* The checkouts that are run next to their notification tasks.
NotifyOptionSet ==
    {o \in OptionSet : o.strategy = "" /\ o.decorators = <<>>
                        /\ o.method = "credit_card"}

InitNotify ==
    /\ Init
    /\ config.retryAttempts = 0
    /\ "discount" \in config.enabled

NextNotify ==
    \/ \E q \in 1..MaxQty : AddItem("prod-1", q)
    \/ \E o \in NotifyOptionSet : BeginOrder(o, FALSE)
    \/ ValidateInventory
    \/ ReserveInventory
    \/ CreatePaymentStep
    \/ ApplyDecorators
    \/ ExecutePaymentStrategy
    \/ \E rnd \in RandScores, geo \in BOOLEAN : Attempt(rnd, geo)
    \/ PaymentFailed
    \/ \E a \in BOOLEAN : Complete(a)
    \/ Return
    \/ \E i \in 1..(2 * MaxOrders), outcome \in Outcomes : ObserverTask(i, outcome)

SpecNotify == InitNotify /\ [][NextNotify]_vars

\* ------------------------------------------------------- decorator chains
\* The feature lists a chain is built from: up to MaxChain different names.
RECURSIVE NoRepeat(_)
NoRepeat(fs) ==
    \/ fs = <<>>
    \/ /\ \A i \in 2..Len(fs) : fs[i] # Head(fs)
       /\ NoRepeat(Tail(fs))

ChainFeatureLists ==
    {fs \in UNION {[1..n -> KnownDecorators] : n \in 0..MaxChain} : NoRepeat(fs)}

\* The amounts Process is called with, and the points to redeem.
ChainAmounts == {150, 1000, 6000, 10000}
ChainRedeems == {0, 200}

\* CreateDecoratorChain on a credit card, every decorator enabled, then
\* Process(amount) on the Payment it returned.  level is the decorator whose
\* Process runs next (0: the instrument), cur the amount it is called with,
\* recv the amount each decorator was called with.
ProcessChain(features, amount, rnd, geo, redeem) ==
    /\ call = NoCall
    /\ LET b == CreateDecoratorChain(features, KnownDecorators, redeem,
                                     InitialLoyaltyPoints)
       IN /\ b.err = NoError
          /\ call' = [kind |-> "down", features |-> features, chain |-> b.chain,
                      method |-> "credit_card", amount |-> amount, rnd |-> rnd,
                      geo |-> geo, redeem |-> redeem, level |-> Len(b.chain),
                      cur |-> amount, recv |-> [k \in 1..Len(b.chain) |-> 0],
                      raised |-> NoError, rejectedAt |-> 0]
    /\ reply' = NoReply
    /\ UNCHANGED <<facadeVars, tasks, subjectVars>>

\* Where a failure at `level` goes: to the decorator above, or to the caller
\* of the chain when there is none.
FailureGoesTo(level) == IF level >= Len(call.chain) THEN "returned" ELSE "fail"

\* A decorator's Process up to its call of d.wrapped.Process.  raised keeps
\* the error as it was first returned, rejectedAt the decorator that
\* returned it.
Enter ==
    /\ call.kind = "down"
    /\ call.level >= 1
    /\ LET name == call.chain[call.level]
           err == DecoratorCheck(name, call.cur, call.rnd, call.geo, 0, call.redeem)
       IN IF err # NoError
          THEN /\ reply' = FailedResult(err, 0)
               /\ call' = [call EXCEPT !.kind = FailureGoesTo(call.level),
                                       !.level = @ + 1, !.raised = err,
                                       !.rejectedAt = call.level]
          ELSE /\ call' = [call EXCEPT
                              !.recv[call.level] = call.cur,
                              !.cur = WrappedAmount(name, call.cur, call.redeem),
                              !.level = @ - 1]
               /\ UNCHANGED reply
    /\ UNCHANGED <<facadeVars, tasks, subjectVars>>

\* The instrument's Process.
Base ==
    /\ call.kind = "down"
    /\ call.level = 0
    /\ reply' = BaseProcess(call.method, call.cur, FALSE)
    /\ call' = [call EXCEPT
                  !.kind = IF ~reply'.ok THEN FailureGoesTo(0)
                           ELSE IF call.chain # <<>> THEN "up" ELSE "returned",
                  !.level = 1,
                  !.raised = reply'.err]
    /\ UNCHANGED <<facadeVars, tasks, subjectVars>>

\* A decorator's Process after d.wrapped.Process returned a result.
Leave ==
    /\ call.kind = "up"
    /\ reply' = AfterWrapped(call.chain[call.level], reply,
                             call.recv[call.level], call.redeem)
    /\ call' = [call EXCEPT
                  !.kind = IF call.level = Len(call.chain) THEN "returned" ELSE "up",
                  !.level = @ + 1]
    /\ UNCHANGED <<facadeVars, tasks, subjectVars>>

\* A decorator's Process after d.wrapped.Process returned an error.
Propagate ==
    /\ call.kind = "fail"
    /\ reply' = OnWrappedError(call.chain[call.level], reply)
    /\ call' = [call EXCEPT !.kind = FailureGoesTo(call.level), !.level = @ + 1]
    /\ UNCHANGED <<facadeVars, tasks, subjectVars>>

InitChain ==
    /\ FacadeIdle
    /\ SubjectIdle
    /\ ChainIdle

NextChain ==
    \/ \E fs \in ChainFeatureLists, a \in ChainAmounts, rnd \in RandScores,
          geo \in BOOLEAN, redeem \in ChainRedeems :
            ProcessChain(fs, a, rnd, geo, redeem)
    \/ Enter
    \/ Base
    \/ Leave
    \/ Propagate

SpecChain == InitChain /\ [][NextChain]_vars

Returned == call.kind = "returned"

\* The steps of a call return what Process returns as a whole.
ChainStepsAgree ==
    Returned =>
        LET r == ChainProcess(call.chain, call.method, call.amount, FALSE,
                              call.rnd, call.geo, 0, call.redeem)
        IN /\ reply.ok = r.ok
           /\ reply.err = r.err
           /\ reply.ok => reply = r

\* ------------------------------------------------------ discount decorator
\* The configurations a DiscountDecorator is built from, and the amounts its
\* Process is called with.
DiscountConfigs ==
    [discountType : {"percentage"}, discountValue : {0, 10, 100, 150},
     minAmount : {0, 50}, maxDiscount : {0, 15, 100}]
    \cup [discountType : {"fixed"}, discountValue : {0, 20, 150},
          minAmount : {0, 50}, maxDiscount : {0, 15, 100}]
    \cup {FactoryDiscountConfig}

DiscountAmounts == {20, 100, 1000, 6000}

\* NewDiscountDecorator around a credit card.
NewDiscount(cfg, expired) ==
    /\ call = NoCall
    /\ LET err == NewDiscountDecorator(cfg)
       IN /\ call' = [kind |-> "discount", cfg |-> cfg, expired |-> expired,
                      pc |-> IF err = NoError THEN "built" ELSE "rejected",
                      amount |-> 0]
          /\ reply' = IF err = NoError THEN NoReply ELSE FailedResult(err, 0)
    /\ UNCHANGED <<facadeVars, tasks, subjectVars>>

\* Process on the decorator.
ProcessDiscount(amount) ==
    /\ call.kind = "discount"
    /\ call.pc \in {"built", "returned"}
    /\ reply' = DiscountProcess(call.cfg, call.expired, "credit_card", amount, FALSE)
    /\ call' = [call EXCEPT !.pc = "returned", !.amount = amount]
    /\ UNCHANGED <<facadeVars, tasks, subjectVars>>

NextDiscount ==
    \/ \E cfg \in DiscountConfigs, expired \in BOOLEAN : NewDiscount(cfg, expired)
    \/ \E a \in DiscountAmounts : ProcessDiscount(a)

SpecDiscount == InitChain /\ [][NextDiscount]_vars

\* ------------------------------------------------------- loyalty decorator
\* The configurations a LoyaltyPointsDecorator is built from, and the amounts
\* (in cents) its Process is called with.
Cents == 100

LoyaltyConfigs ==
    [availablePoints : {0, 100, 500}, pointsToRedeem : {0 - 10, 0, 100, 200, 600},
     ratio : {1, 2}, maxPct : {50, 150}]

LoyaltyAmounts == {0, 50, 10050, 15000, 20000, 40099}

\* NewLoyaltyPointsDecorator around a credit card.
NewLoyalty(cfg) ==
    /\ call = NoCall
    /\ LET err == NewLoyaltyPointsDecorator(cfg.pointsToRedeem, cfg.availablePoints)
       IN /\ call' = [kind |-> "loyalty", cfg |-> cfg,
                      pc |-> IF err = NoError THEN "built" ELSE "rejected",
                      amount |-> 0]
          /\ reply' = IF err = NoError THEN NoReply ELSE FailedResult(err, 0)
    /\ UNCHANGED <<facadeVars, tasks, subjectVars>>

\* Process on the decorator.
ProcessLoyalty(amount) ==
    /\ call.kind = "loyalty"
    /\ call.pc \in {"built", "returned"}
    /\ reply' = LoyaltyProcess(call.cfg, Cents, "credit_card", amount, FALSE)
    /\ call' = [call EXCEPT !.pc = "returned", !.amount = amount]
    /\ UNCHANGED <<facadeVars, tasks, subjectVars>>

NextLoyaltyDecorator ==
    \/ \E cfg \in LoyaltyConfigs : NewLoyalty(cfg)
    \/ \E a \in LoyaltyAmounts : ProcessLoyalty(a)

SpecLoyaltyDecorator == InitChain /\ [][NextLoyaltyDecorator]_vars

\* ----------------------------------------------------------- split strategy
\* Amounts of the split strategy are in thousandths of the currency unit, so
\* that "%.2f" has something to round.
Mills == 1000

\* fmt.Sprintf("%.2f", x) of a non-negative amount that is not half-way
\* between two hundredths: the hundredths nearest to it.
Format2(x) == (x + 5) \div 10

RECURSIVE SumAmounts(_)
SumAmounts(parts) ==
    IF parts = <<>> THEN 0 ELSE Head(parts).amount + SumAmounts(Tail(parts))

\* NewSplitPaymentStrategy
NewSplitPaymentStrategy(parts) ==
    IF Len(parts) = 0
    THEN New(ErrCodeValidation, "at least one payment method is required")
    ELSE IF Len(parts) > 5
    THEN New(ErrCodeValidation, "maximum 5 payment methods allowed for split payment")
    ELSE NoError

SplitValidateAmount_TotalOnly(parts, total) ==
    IF total <= 0 THEN New(ErrCodeValidation, "amount must be positive")
    ELSE NoError

\* SplitPaymentStrategy.ValidateAmount
SplitValidateAmount(parts, total) ==
    IF total <= 0 THEN New(ErrCodeValidation, "amount must be positive")
    ELSE IF \E i \in 1..Len(parts) : parts[i].amount <= 0
    THEN New(ErrCodeValidation, "split payment part has invalid amount")
    ELSE NoError

\* What Execute returns before its loop over the parts (lines 37-51).
SplitPrecheck(parts, total) ==
    IF SplitValidateAmount(parts, total) # NoError
    THEN SplitValidateAmount(parts, total)
    ELSE IF Format2(SumAmounts(parts)) # Format2(total)
    THEN New(ErrCodeValidation, "split payment amounts do not match total amount")
    ELSE NoError

rollbackPayments_Refunds(processed) ==
    [logged |-> [i \in 1..Len(processed) |-> i], refunds |-> Len(processed)]

\* rollbackPayments: one log line per processed part, and no call on any
\* instrument.
rollbackPayments(processed) ==
    [logged |-> [i \in 1..Len(processed) |-> i], refunds |-> 0]

\* The parts a split is made of.
SplitItems ==
    [method : {"credit_card", "crypto"}, amount : {0, 5004, 10006}]
SplitLists == UNION {[1..n -> SplitItems] : n \in 0..MaxParts}
SplitTotals == {0, 10010, 15010, 20020}

\* NewSplitPaymentStrategy(parts), when it returns a strategy.
NewSplit(parts) ==
    /\ call = NoCall
    /\ LET err == NewSplitPaymentStrategy(parts)
       IN /\ call' = [kind |-> "split", parts |-> parts, total |-> 0,
                      pc |-> IF err = NoError THEN "built" ELSE "rejected",
                      k |-> 0, done |-> FALSE, processed |-> <<>>,
                      calls |-> [i \in 1..Len(parts) |-> 0],
                      logged |-> <<>>, refunds |-> 0, failedAt |-> 0]
          /\ reply' = IF err = NoError THEN NoReply ELSE FailedResult(err, 0)
    /\ UNCHANGED <<facadeVars, tasks, subjectVars>>

\* Execute up to its loop.
SplitExecute(total) ==
    /\ call.kind = "split"
    /\ call.pc = "built"
    /\ LET err == SplitPrecheck(call.parts, total)
       IN IF err # NoError
          THEN /\ reply' = FailedResult(err, 0)
               /\ call' = [call EXCEPT !.pc = "returned", !.total = total]
          ELSE /\ call' = [call EXCEPT !.pc = "loop", !.total = total, !.k = 1]
               /\ UNCHANGED reply
    /\ UNCHANGED <<facadeVars, tasks, subjectVars>>

\* The context of the Execute call is cancelled between two parts.
SplitCtxExpire ==
    /\ call.kind = "split"
    /\ call.pc = "loop"
    /\ call.k >= 2
    /\ ~call.done
    /\ call' = [call EXCEPT !.done = TRUE]
    /\ UNCHANGED <<reply, facadeVars, tasks, subjectVars>>

\* One iteration of the loop (lines 56-74).
SplitPart ==
    /\ call.kind = "split"
    /\ call.pc = "loop"
    /\ call.k <= Len(call.parts)
    /\ LET item == call.parts[call.k]
           r == BaseProcessIn(Mills, item.method, item.amount, call.done)
           rb == rollbackPayments(call.processed)
       IN IF ~r.ok
          THEN /\ reply' = FailedResult(Wrap(r.err, ErrCodePaymentFailed,
                                             "split payment part failed"), 1)
               /\ call' = [call EXCEPT !.pc = "returned",
                                       !.calls[call.k] = @ + 1,
                                       !.logged = rb.logged,
                                       !.refunds = @ + rb.refunds,
                                       !.failedAt = call.k]
          ELSE /\ call' = [call EXCEPT !.calls[call.k] = @ + 1,
                                       !.processed = Append(@, r),
                                       !.k = @ + 1]
               /\ UNCHANGED reply
    /\ UNCHANGED <<facadeVars, tasks, subjectVars>>

\* The combined result after the last part (lines 76-99).
SplitFinish ==
    /\ call.kind = "split"
    /\ call.pc = "loop"
    /\ call.k > Len(call.parts)
    /\ reply' = [ok |-> TRUE, err |-> NoError, amount |-> call.total,
                 originalAmount |-> call.total,
                 processedAmount |-> SumAmounts(call.parts),
                 applied |-> <<>>, baseCalls |-> Len(call.parts),
                 charged |-> SumAmounts(call.parts), recorded |-> 0,
                 earned |-> 0, redeemed |-> 0]
    /\ call' = [call EXCEPT !.pc = "returned"]
    /\ UNCHANGED <<facadeVars, tasks, subjectVars>>

NextSplit ==
    \/ \E parts \in SplitLists : NewSplit(parts)
    \/ \E total \in SplitTotals : SplitExecute(total)
    \/ SplitCtxExpire
    \/ SplitPart
    \/ SplitFinish

SpecSplit == InitChain /\ [][NextSplit]_vars

\* ------------------------------------------------------ payment strategies
\* StrategyFactory.createInstantStrategy / createDeferredStrategy with the
\* parameters of cfg.
CreateStrategyWith(type, cfg) ==
    IF type = "deferred" /\ cfg.installments < 2
    THEN New(ErrCodeValidation, "deferred payment requires at least 2 installments")
    ELSE IF type = "deferred" /\ cfg.installments > 12
    THEN New(ErrCodeValidation, "deferred payment cannot exceed 12 installments")
    ELSE NoError

\* The strategies that are built and the amounts they are executed on.
StrategyConfigs ==
    [type : {"instant"}, minAmount : {1, 100}, maxAmount : {500, 10000},
     installments : {1}, interestRate : {0}]
    \cup [type : {"deferred"}, minAmount : {100}, maxAmount : {10000},
          installments : {1, 2, 3, 4, 13}, interestRate : {0, 20}]

StrategyAmounts == {0, 50, 600, 1200, 10000, 12000}

\* The installment of the schedule is a whole amount.
WholeInstallment(cfg, amount) ==
    (amount * (100 + cfg.interestRate)) % (100 * cfg.installments) = 0

NewStrategy(cfg) ==
    /\ call = NoCall
    /\ LET err == CreateStrategyWith(cfg.type, cfg)
       IN /\ call' = [kind |-> "strategy", cfg |-> cfg,
                      pc |-> IF err = NoError THEN "built" ELSE "rejected",
                      amount |-> 0, done |-> FALSE]
          /\ reply' = IF err = NoError THEN NoReply ELSE FailedResult(err, 0)
    /\ UNCHANGED <<facadeVars, tasks, subjectVars>>

\* Execute on a credit card, with a live or a cancelled context.
ExecuteStrategy(amount, done) ==
    /\ call.kind = "strategy"
    /\ call.pc \in {"built", "returned"}
    /\ WholeInstallment(call.cfg, amount)
    /\ reply' = StrategyExecuteOf(call.cfg.type, call.cfg, <<>>, "credit_card",
                                  amount, done, 0, FALSE, 0, 0)
    /\ call' = [call EXCEPT !.pc = "returned", !.amount = amount, !.done = done]
    /\ UNCHANGED <<facadeVars, tasks, subjectVars>>

NextStrategy ==
    \/ \E cfg \in StrategyConfigs : NewStrategy(cfg)
    \/ \E a \in StrategyAmounts, done \in BOOLEAN : ExecuteStrategy(a, done)

SpecStrategy == InitChain /\ [][NextStrategy]_vars

\* ------------------------------------------------------- base instruments
\* Process of one instrument, called on an amount in cents with a context
\* that may be cancelled or run out before Process looks at it.
InstrumentMethods == {"credit_card", "paypal", "crypto"}

InstrumentAmounts ==
    {-100, 0, 50, 100, 999, 1000, 500000, 500001, 1000000, 1000001,
     5000000, 5000001}

InstrumentCall(method, amount) ==
    /\ call = NoCall \/ (call.kind = "instrument" /\ call.pc = "returned")
    /\ call' = [kind |-> "instrument", pc |-> "called", method |-> method,
                amount |-> amount, done |-> FALSE, ids |-> 0]
    /\ reply' = NoReply
    /\ UNCHANGED <<facadeVars, tasks, subjectVars>>

InstrumentCtxDone ==
    /\ call.kind = "instrument"
    /\ call.pc = "called"
    /\ ~call.done
    /\ call' = [call EXCEPT !.done = TRUE]
    /\ UNCHANGED <<reply, facadeVars, tasks, subjectVars>>

InstrumentProcess ==
    /\ call.kind = "instrument"
    /\ call.pc = "called"
    /\ reply' = BaseProcessIn(Cents, call.method, call.amount, call.done)
    /\ call' = [call EXCEPT !.pc = "returned",
                            !.ids = BaseNewIDs(Cents, call.method, call.amount,
                                               call.done)]
    /\ UNCHANGED <<facadeVars, tasks, subjectVars>>

NextInstrument ==
    \/ \E m \in InstrumentMethods, a \in InstrumentAmounts : InstrumentCall(m, a)
    \/ InstrumentCtxDone
    \/ InstrumentProcess

SpecInstrument == InitChain /\ [][NextInstrument]_vars

\* ----------------------------------------------- fraud decorator, velocity
\* One FraudDetectionDecorator around a credit card, called again and again
\* by one caller.  recent and aged count the timestamps of the customer's
\* history entry inside and outside the velocity window.
VelocityCeilings == {0, 1, 2}
VelocityAmounts == {0, 500, 6000}

NewFraud(max) ==
    /\ call = NoCall
    /\ call' = [kind |-> "velocity", pc |-> "built",
                cfg |-> [maxRiskScore |-> MaxRiskScore,
                         maxTransactionsPerWindow |-> max],
                exists |-> FALSE, recent |-> 0, aged |-> 0, seen |-> 0,
                calls |-> 0]
    /\ reply' = NoReply
    /\ UNCHANGED <<facadeVars, tasks, subjectVars>>

\* Process; seen keeps the number of recorded transactions that were inside
\* the window when the call was made.
VelocityProcess(amount, rnd, geo) ==
    /\ call.kind = "velocity"
    /\ call.recent + call.aged < MaxRecorded
    /\ LET r == FraudProcess(call.cfg, call.exists, call.recent, "credit_card",
                             amount, FALSE, rnd, geo)
       IN /\ reply' = r
          /\ call' = [call EXCEPT !.pc = "returned",
                                  !.seen = call.recent,
                                  !.calls = IF @ = 0 THEN 1 ELSE 2,
                                  !.exists = @ \/ r.recorded = 1,
                                  !.recent = @ + r.recorded]
    /\ UNCHANGED <<facadeVars, tasks, subjectVars>>

\* Time passes: the oldest timestamp inside the window leaves it.
WindowPasses ==
    /\ call.kind = "velocity"
    /\ call.recent > 0
    /\ call' = [call EXCEPT !.recent = @ - 1, !.aged = @ + 1]
    /\ UNCHANGED <<reply, facadeVars, tasks, subjectVars>>

NextVelocity ==
    \/ \E max \in VelocityCeilings : NewFraud(max)
    \/ \E a \in VelocityAmounts, rnd \in RandScores, geo \in BOOLEAN :
          VelocityProcess(a, rnd, geo)
    \/ WindowPasses

SpecVelocity == InitChain /\ [][NextVelocity]_vars

\* ------------------------------------------- two checkouts, one product
\* Two ProcessOrder calls run side by side on carts that hold the same
\* product.  GetProduct hands out the repository's own *Product, so the
\* reads and the write of Stock in CheckAvailability, ReserveStock and
\* ReleaseStock go to the one shared field, and no lock is held from one of
\* them to the next.  call.stock is that field; saw is the value a call's
\* comparison in ReserveStock read, reg the value it has loaded, overlap
\* says the second call began before the first one ended.
Callers == {1, 2}

InsufficientStock_Never(have, need) == FALSE

\* ReserveStock line 45.
InsufficientStock(have, need) == have < need

RaceRunning(w) == w.pc \notin {"idle", "done", "failed"}

RaceStart(initial) ==
    /\ call = NoCall
    /\ call' = [kind |-> "race", initial |-> initial, stock |-> initial,
                overlap |-> FALSE,
                w |-> [i \in Callers |-> [pc |-> "idle", qty |-> 0, saw |-> 0,
                                       reg |-> 0]]]
    /\ UNCHANGED <<reply, facadeVars, tasks, subjectVars>>

RaceStep(i, pcFrom) == call.kind = "race" /\ call.w[i].pc = pcFrom

RaceSame == UNCHANGED <<reply, facadeVars, tasks, subjectVars>>

\* ProcessOrder is called with a cart of q units of the product.
RaceBegin(i, q) ==
    /\ RaceStep(i, "idle")
    /\ call' = [call EXCEPT
                  !.w[i] = [pc |-> "validate", qty |-> q, saw |-> 0, reg |-> 0],
                  !.overlap = @ \/ \E j \in Callers : RaceRunning(call.w[j])]
    /\ RaceSame

\* validateInventory: CheckAvailability reads Stock.
RaceValidate(i) ==
    /\ RaceStep(i, "validate")
    /\ call' = [call EXCEPT
                  !.w[i].pc = IF call.stock >= call.w[i].qty
                              THEN "reserve" ELSE "failed"]
    /\ RaceSame

\* ReserveStock lines 40-50: GetProduct and the comparison.
RaceCheck(i) ==
    /\ RaceStep(i, "reserve")
    /\ call' = [call EXCEPT
                  !.w[i].saw = call.stock,
                  !.w[i].reg = call.stock,
                  !.w[i].pc = IF InsufficientStock(call.stock, call.w[i].qty)
                              THEN "failed" ELSE "load"]
    /\ RaceSame

\* ReserveStock line 52, the read of product.Stock -= quantity: the value
\* the comparison loaded is used again, or the field is read once more.
RaceLoad(i, again) ==
    /\ RaceStep(i, "load")
    /\ call' = [call EXCEPT
                  !.w[i].reg = IF again THEN call.stock ELSE @,
                  !.w[i].pc = "store"]
    /\ RaceSame

\* ReserveStock lines 52-56: the write; UpdateProduct stores the pointer
\* the map already holds.
RaceStore(i) ==
    /\ RaceStep(i, "store")
    /\ call' = [call EXCEPT
                  !.stock = call.w[i].reg - call.w[i].qty,
                  !.w[i].pc = "pay"]
    /\ RaceSame

\* ProcessOrder lines 89-145: the payment succeeds and the order completes,
\* or it fails and rollbackInventory begins.
RacePay(i, ok) ==
    /\ RaceStep(i, "pay")
    /\ call' = [call EXCEPT !.w[i].pc = IF ok THEN "done" ELSE "release"]
    /\ RaceSame

\* ReleaseStock line 73, the read of product.Stock += quantity.
RaceReleaseLoad(i) ==
    /\ RaceStep(i, "release")
    /\ call' = [call EXCEPT !.w[i].reg = call.stock, !.w[i].pc = "restore"]
    /\ RaceSame

\* ReleaseStock lines 73-77: the write.
RaceReleaseStore(i) ==
    /\ RaceStep(i, "restore")
    /\ call' = [call EXCEPT
                  !.stock = call.w[i].reg + call.w[i].qty,
                  !.w[i].pc = "failed"]
    /\ RaceSame

NextRace ==
    \/ \E initial \in 1..MaxStock : RaceStart(initial)
    \/ \E i \in Callers, q \in 1..MaxQty : RaceBegin(i, q)
    \/ \E i \in Callers : RaceValidate(i)
    \/ \E i \in Callers : RaceCheck(i)
    \/ \E i \in Callers, again \in BOOLEAN : RaceLoad(i, again)
    \/ \E i \in Callers : RaceStore(i)
    \/ \E i \in Callers, ok \in BOOLEAN : RacePay(i, ok)
    \/ \E i \in Callers : RaceReleaseLoad(i)
    \/ \E i \in Callers : RaceReleaseStore(i)

SpecRace == InitChain /\ [][NextRace]_vars

\* ------------------------------------------ concurrent SMS notifications
\* Several Notify calls run side by side on one SMSNotifier.  The mutex is
\* held inside checkRateLimit and inside recordMessage, each of which is one
\* step here, and is free while sendSMS sleeps between them.  Time is
\* counted in half minutes: call.now is the clock, call.messageTimes the
\* notifier's slice, found the length of the slice a call's check compared
\* with the limit.
MaxClock == 3

Minute == 2

RateLimits == {1, 2}

\* checkRateLimit lines 61-64: t.After(cutoff).
Recent(times, now) == SelectSeq(times, LAMBDA t : t > now - Minute)

SmsStart(rateLimit) ==
    /\ call = NoCall
    /\ call' = [kind |-> "sms", rateLimit |-> rateLimit, messageTimes |-> <<>>,
                now |-> 0, overlap |-> FALSE,
                w |-> [i \in Callers |-> [pc |-> "idle", ctxDone |-> FALSE,
                                       found |-> 0, ret |-> "none"]]]
    /\ UNCHANGED <<reply, facadeVars, tasks, subjectVars>>

SmsStep(i, pcFrom) == call.kind = "sms" /\ call.w[i].pc = pcFrom

SmsSame == UNCHANGED <<reply, facadeVars, tasks, subjectVars>>

\* Notify is called; done says whether its context is over by the time
\* sendSMS looks at it.
SmsNotify(i, done) ==
    /\ SmsStep(i, "idle")
    /\ call' = [call EXCEPT
                  !.w[i] = [pc |-> "check", ctxDone |-> done, found |-> 0,
                            ret |-> "none"],
                  !.overlap = @ \/ \E j \in Callers : call.w[j].pc # "idle"]
    /\ SmsSame

\* checkRateLimit: under the mutex the slice is cut down to the last
\* minute and its length compared with the limit.
CheckRateLimit(i) ==
    /\ SmsStep(i, "check")
    /\ LET recent == Recent(call.messageTimes, call.now)
           limited == Len(recent) >= call.rateLimit
       IN call' = [call EXCEPT
                     !.messageTimes = recent,
                     !.w[i].found = Len(recent),
                     !.w[i].ret = IF limited THEN "limited" ELSE @,
                     !.w[i].pc = IF limited THEN "idle" ELSE "send"]
    /\ SmsSame

\* sendSMS: the message goes out unless the context is over.
SendSMS(i) ==
    /\ SmsStep(i, "send")
    /\ call' = [call EXCEPT
                  !.w[i].ret = IF call.w[i].ctxDone THEN "failed" ELSE @,
                  !.w[i].pc = IF call.w[i].ctxDone THEN "idle" ELSE "record"]
    /\ SmsSame

\* recordMessage: under the mutex the time of the message is appended.
RecordMessage(i) ==
    /\ SmsStep(i, "record")
    /\ call' = [call EXCEPT
                  !.messageTimes = Append(@, call.now),
                  !.w[i].ret = "sent",
                  !.w[i].pc = "idle"]
    /\ SmsSame

\* Half a minute passes.
SmsTick ==
    /\ call.kind = "sms"
    /\ call.now < MaxClock
    /\ call' = [call EXCEPT !.now = @ + 1]
    /\ SmsSame

NextSms ==
    \/ \E rateLimit \in RateLimits : SmsStart(rateLimit)
    \/ \E i \in Callers, done \in BOOLEAN : SmsNotify(i, done)
    \/ \E i \in Callers : CheckRateLimit(i)
    \/ \E i \in Callers : SendSMS(i)
    \/ \E i \in Callers : RecordMessage(i)
    \/ SmsTick

SpecSms == InitChain /\ [][NextSms]_vars

\* ------------------------------------------------------- claim vocabulary
Done == pc = "done"
Succeeded == Done /\ ret.receipt.present
Failed == Done /\ ret.err # NoError
ExecCount == Len(obs.execLog)
CallEvents == SubSeq(emitted, obs.emitted0 + 1, Len(emitted))
LoopOver == obs.retryEntered /\ pc \in {"complete", "failed", "done"}

\* The attempt failed because of a fraud-detected or invalid-payment error.
RootIsNonRetryable(err) ==
    /\ err # NoError
    /\ RootCause(err).app
    /\ RootCause(err).code \in {ErrCodeFraudDetected, ErrCodeInvalidPayment}

\* Some line asks for more than the stock st holds, or for an unknown product.
Shortfall(st, items) ==
    \E i \in 1..Len(items) :
        \/ items[i].productID \notin DOMAIN st
        \/ st[items[i].productID] < items[i].quantity

RECURSIVE QuantityOf(_, _)
QuantityOf(items, p) ==
    IF items = <<>> THEN 0
    ELSE (IF Head(items).productID = p THEN Head(items).quantity ELSE 0)
         + QuantityOf(Tail(items), p)

ProductIDs(items) == [i \in 1..Len(items) |-> items[i].productID]

\* ------------------------------------------------------------------ claims

\* C1: an Execute attempt that fails because of a fraud-detected or
\* invalid-payment error is the last attempt of the call: no retry follows it,
\* whatever RetryAttempts is.
C1_NoRetryAfterFraud ==
    \A i \in 1..ExecCount :
        RootIsNonRetryable(obs.execLog[i].err) => (i = ExecCount /\ pc # "attempt")

\* The attempt ran after the context's signal and the instrument refused it
\* for that reason.
TimedOut(a) ==
    /\ a.ctxDone
    /\ a.err # NoError
    /\ \E k \in 1..Len(a.err) : a.err[k].app /\ a.err[k].code = ErrCodeTimeout

\* C2: once an Execute attempt has met the context's deadline or cancellation
\* signal, no further attempt is made, and the error ProcessOrder returns is
\* classified as timeout.
C2_CancellationStopsRetry ==
    /\ \A i \in 1..ExecCount :
          TimedOut(obs.execLog[i]) => (i = ExecCount /\ pc # "attempt")
    /\ (Failed /\ ExecCount > 0 /\ TimedOut(obs.execLog[ExecCount]))
          => IsErrorCode(ret.err, ErrCodeTimeout)

\* C3: an error whose root cause is fraud-detected or invalid-payment is still
\* classified with that code by IsErrorCode after the payment-failed
\* envelopes are put around it, in the retry loop and on the returned error.
C3_WrapPreservesKind ==
    /\ RootIsNonRetryable(lastErr) => IsErrorCode(lastErr, RootCause(lastErr).code)
    /\ RootIsNonRetryable(ret.err) => IsErrorCode(ret.err, RootCause(ret.err).code)

\* C4 (as stated): every ProcessOrder call invokes Execute at least once and
\* at most RetryAttempts+1 times.
C4_EveryCallExecutes ==
    Done => (1 <= ExecCount /\ ExecCount <= config.retryAttempts + 1)

\* C4 (amended): a ProcessOrder call that reaches executeWithRetry invokes
\* Execute at least once and at most RetryAttempts+1 times; no attempt follows
\* a successful one; if every attempt fails with a retryable error there are
\* exactly RetryAttempts+1 attempts and the last attempt's error is returned;
\* every attempt uses the same decorator chain and the same Transaction.
C4_RetryLoopBounds ==
    /\ ExecCount <= config.retryAttempts + 1
    /\ \A i \in 1..ExecCount :
          /\ obs.execLog[i].ok => i = ExecCount
          /\ obs.execLog[i].chain = chain
          /\ obs.execLog[i].txid = tx.id
          /\ obs.execLog[i].attempt = i - 1
    /\ pc = "attempt" => (obs.retryEntered /\ ExecCount = attempt)
    /\ LoopOver =>
          /\ 1 <= ExecCount
          /\ (\A i \in 1..ExecCount :
                 ~obs.execLog[i].ok /\ ~IsNonRetryable(obs.execLog[i].err))
             => /\ ExecCount = config.retryAttempts + 1
                /\ lastErr = obs.execLog[ExecCount].err
                /\ Done => Tail(ret.err) = obs.execLog[ExecCount].err

C4_Witness ==
    /\ Failed
    /\ obs.retryEntered
    /\ config.retryAttempts = MaxRetryAttempts
    /\ ExecCount = MaxRetryAttempts + 1
    /\ chain # <<>>

\* C5: when a cart line asks for more than the stock (or for a missing
\* product) at validation time, the call fails with an inventory error and
\* nothing was touched: stock as before, no ReserveStock, no Process.
C5_ShortfallFailsBeforeMutation ==
    (pc \notin {"idle", "validate"} /\ Shortfall(obs.stock0, obs.cart0)) =>
        /\ Failed
        /\ IsErrorCode(Tail(ret.err), ErrCodeInventoryError)
        /\ obs.stage = "inventory validation failed"
        /\ stock = obs.stock0
        /\ obs.reserveCalls = <<>>
        /\ obs.releaseCalls = <<>>
        /\ obs.processCalls = 0
        /\ obs.baseCalls = 0
        /\ ExecCount = 0

C5_Witness ==
    /\ Failed
    /\ Len(obs.cart0) = 2
    /\ ~Shortfall(obs.stock0, SubSeq(obs.cart0, 1, 1))
    /\ Shortfall(obs.stock0, obs.cart0)

\* C6: a call that fails after the reservation succeeded leaves every
\* product's stock as it was before the call, and released each reserved
\* line exactly once.
FailedAfterReserve ==
    /\ Failed
    /\ obs.stage \in {"payment creation failed", "decorator application failed",
                      "payment processing failed"}

C6_RollbackRestoresStock ==
    FailedAfterReserve =>
        /\ stock = obs.stock0
        /\ obs.reserveCalls = ProductIDs(obs.cart0)
        /\ obs.releaseCalls = obs.reserveCalls

C6_Witness ==
    /\ FailedAfterReserve
    /\ obs.stage = "payment processing failed"
    /\ Len(obs.cart0) = 2
    /\ ExecCount >= 2

\* C7: a successful call leaves each product's stock at its stock before the
\* call minus the quantity of that product in the cart (so products not in
\* the cart keep their stock), and no stock is ever negative.
C7_ReserveDecrementsStock ==
    /\ \A p \in DOMAIN stock : stock[p] >= 0
    /\ Succeeded =>
          \A p \in DOMAIN stock :
              stock[p] = obs.stock0[p] - QuantityOf(obs.cart0, p)

C7_Witness ==
    /\ Succeeded
    /\ \E p \in Products : QuantityOf(obs.cart0, p) >= 2
    /\ \E p \in Products : QuantityOf(obs.cart0, p) = 0 /\ stock[p] > 0
    /\ DOMAIN transactions # {}

\* C8: a call emits the started event first and exactly once; when it has
\* returned it has emitted exactly one more event, success if it returned a
\* receipt and failed if it returned an error; all carry the call's
\* transaction id.
C8_EventLifecycle ==
    pc # "idle" =>
        /\ Len(CallEvents) >= 1
        /\ CallEvents[1].type = EventPaymentStarted
        /\ \A i \in 1..Len(CallEvents) : CallEvents[i].transactionID = tx.id
        /\ \A i \in 1..(Len(emitted) - Len(CallEvents)) :
              emitted[i].transactionID # tx.id
        /\ ~Done => Len(CallEvents) = 1
        /\ Done =>
              /\ Len(CallEvents) = 2
              /\ CallEvents[2].type \in {EventPaymentSuccess, EventPaymentFailed}
              /\ CallEvents[2].type = EventPaymentSuccess <=> ret.receipt.present
              /\ CallEvents[2].type = EventPaymentFailed <=> ret.err # NoError

C8_Witness ==
    /\ Failed
    /\ tx.id = 2
    /\ Len(emitted) = 4
    /\ emitted[2].type = EventPaymentSuccess
    /\ emitted[4].type = EventPaymentFailed

\* C9: a call returns a receipt and no error, or an error and no receipt;
\* its Transaction is pending until the call ends, then completed exactly
\* when a receipt is returned and failed, with the text of the error that
\* failed it as ErrorMessage, exactly when an error is returned; it takes one
\* terminal status only.
C9_TransactionOutcome ==
    pc # "idle" =>
        /\ obs.statusLog[Len(obs.statusLog)] = tx.status
        /\ obs.statusLog[1] = TransactionStatusPending
        /\ ~Done => (obs.statusLog = <<TransactionStatusPending>> /\ ret = NoRet)
        /\ Done =>
              /\ ret.receipt.present <=> ret.err = NoError
              /\ ret.receipt.present <=>
                    obs.statusLog = <<TransactionStatusPending, TransactionStatusCompleted>>
              /\ ret.err # NoError <=>
                    obs.statusLog = <<TransactionStatusPending, TransactionStatusFailed>>
              /\ ret.err # NoError =>
                    /\ tx.errorMessage # <<>>
                    /\ tx.errorMessage = ErrorText(Tail(ret.err))
              /\ ret.receipt.present => tx.errorMessage = <<>>

C9_Witness ==
    /\ Failed
    /\ tx.status = TransactionStatusFailed
    /\ Len(tx.errorMessage) >= 4
    /\ DOMAIN transactions # {}

\* C10: after a successful call whose write the repository accepted, the
\* Transaction was written once and GetTransaction(receipt.TransactionID)
\* gives a record with status completed, the customer's id and the cart total
\* at call time.
C10_TransactionPersisted ==
    (Succeeded /\ obs.accepted) =>
        /\ obs.createCalls = 1
        /\ ret.receipt.transactionID \in DOMAIN transactions
        /\ LET rec == transactions[ret.receipt.transactionID]
           IN /\ rec.id = ret.receipt.transactionID
              /\ rec.status = TransactionStatusCompleted
              /\ rec.customerID = CustomerID
              /\ rec.amount = GetTotal(obs.cart0)

C10_Witness ==
    /\ Succeeded
    /\ obs.accepted
    /\ Cardinality(DOMAIN transactions) = 2
    /\ GetTotal(obs.cart0) > 1000

\* C11: a successful call whose chain reported loyalty points leaves the
\* stored balance at the balance before the call plus the points earned minus
\* the points redeemed, written once; a successful call whose chain reported
\* none leaves it as it was; the stored balance is never negative.
C11_LoyaltyBalance ==
    /\ loyalty >= 0
    /\ Succeeded =>
          /\ reportsLoyalty(result) =>
                /\ loyalty = obs.loyalty0 + result.earned - result.redeemed
                /\ obs.loyaltyCalls = 1
          /\ ("loyalty_points" \in {result.applied[i] : i \in 1..Len(result.applied)})
                => /\ reportsLoyalty(result)
                   /\ result.redeemed = opts.useLoyaltyPoints
          /\ ~reportsLoyalty(result) =>
                /\ loyalty = obs.loyalty0
                /\ obs.loyaltyCalls = 0

C11_Witness ==
    /\ Succeeded
    /\ result.redeemed = 2 * InitialLoyaltyPoints
    /\ obs.loyalty0 # InitialLoyaltyPoints
    /\ loyalty > obs.loyalty0

RECURSIVE CallsOf(_, _)
CallsOf(g, name) ==
    IF g = <<>> THEN 0
    ELSE (IF Head(g).obs = name THEN Head(g).calls ELSE 0) + CallsOf(Tail(g), name)

RECURSIVE TotalCalls(_)
TotalCalls(g) == IF g = <<>> THEN 0 ELSE Head(g).calls + TotalCalls(Tail(g))

Ended(st) == st \in {"ok", "failed", "recovered"}

\* C13: a Notify call on a Subject with K attached observers of distinct
\* names, made while no Attach or Detach runs, has invoked Notify K times
\* when it returns, once on each attached observer and on no other; when the
\* last call before it was the Detach of one of K attached observers, that is
\* K-1 invocations and none on the detached observer.
C13_FanOut ==
    (cyc.pc = "returned" /\ cyc.quiet /\ Distinct(cyc.atCall)) =>
        /\ TotalCalls(cyc.g) = Len(cyc.atCall)
        /\ \A n \in ObserverNames :
              CallsOf(cyc.g, n) = IF n \in Names(cyc.atCall) THEN 1 ELSE 0
        /\ (cyc.prev.op = "detach" /\ cyc.prev.attached) =>
              /\ TotalCalls(cyc.g) = cyc.prev.k - 1
              /\ CallsOf(cyc.g, cyc.prev.name) = 0

C13_Witness ==
    /\ cyc.pc = "returned"
    /\ cyc.quiet
    /\ cyc.prev.op = "detach"
    /\ cyc.prev.attached
    /\ cyc.prev.k >= 2
    /\ TotalCalls(cyc.g) >= 1

\* C14: an observer whose Notify returns an error or panics takes nothing
\* down: no panic leaves its goroutine, every other goroutine of the cycle
\* can still invoke its observer, and when Notify returns every observer of
\* the cycle was invoked exactly once.
C14_ObserverIsolation ==
    /\ ~Crashed
    /\ \A k \in 1..Len(cyc.g) :
          /\ cyc.g[k].calls <= 1
          /\ cyc.g[k].st = "spawned" => ENABLED Invoke(k)
    /\ cyc.pc = "returned" =>
          /\ Len(cyc.g) = Len(cyc.snapshot)
          /\ \A k \in 1..Len(cyc.g) : cyc.g[k].calls = 1 /\ Ended(cyc.g[k].st)

C14_Witness ==
    /\ cyc.pc = "returned"
    /\ \E k \in 1..Len(cyc.g) : cyc.g[k].st = "recovered"
    /\ \E k \in 1..Len(cyc.g) : cyc.g[k].st = "failed"

\* C15: Notify has not returned while a goroutine it started is still to
\* run or running, and when every observer's Notify ends, a Notify call
\* returns.
C15_NotifyWaits ==
    /\ [](cyc.pc = "returned" => \A k \in 1..Len(cyc.g) : Ended(cyc.g[k].st))
    /\ (cyc.pc = "rlock" ~> cyc.pc = "returned")

C15_Witness ==
    /\ cyc.pc = "wait"
    /\ Len(cyc.g) >= 2
    /\ \E k \in 1..Len(cyc.g) : cyc.g[k].st = "running"
    /\ \E k \in 1..Len(cyc.g) : Ended(cyc.g[k].st)

\* C16: the goroutines of a Notify cycle are those of its snapshot, entry by
\* entry, each invoking its observer once, whatever Attach and Detach do to
\* the list after the snapshot; and no Attach or Detach holds the lock while
\* the snapshot is taken.
C16_SnapshotIsolation ==
    /\ ~(mut.pc = "locked" /\ cyc.pc \in {"rlocked", "copied"})
    /\ Len(cyc.g) <= Len(cyc.snapshot)
    /\ \A k \in 1..Len(cyc.g) : cyc.g[k].obs = cyc.snapshot[k]
    /\ cyc.pc \in {"wait", "returned"} => Len(cyc.g) = Len(cyc.snapshot)
    /\ cyc.pc = "returned" => \A k \in 1..Len(cyc.g) : cyc.g[k].calls = 1

C16_Witness ==
    /\ cyc.pc = "returned"
    /\ ~cyc.quiet
    /\ Len(cyc.snapshot) >= 2
    /\ Names(observers) # Names(cyc.snapshot)

\* C17: the notification tasks change nothing ProcessOrder returns or writes
\* (stock, transactions, loyalty balance, cart, return value), and a
\* ProcessOrder call in progress can always take its next step, whatever its
\* tasks are doing: it waits for none of them.
C17_FireAndForget ==
    /\ [][(tasks' # tasks /\ Len(tasks') = Len(tasks)) => UNCHANGED facadeVars]_vars
    /\ [](pc # "idle" => ENABLED FacadeStep)

C17_Witness ==
    /\ Succeeded
    /\ transactions # <<>>
    /\ tasks[Len(tasks)] = "running"
    /\ tasks[Len(tasks) - 1] = "running"
    /\ \E i \in 1..Len(tasks) : tasks[i] = "recovered"
    /\ \E i \in 1..Len(tasks) : tasks[i] = "failed"

\* The cart total after the adjustments of fs, the first one applied first.
RECURSIVE InCallerOrder(_, _, _)
InCallerOrder(fs, total, redeem) ==
    IF fs = <<>> THEN total
    ELSE InCallerOrder(Tail(fs), WrappedAmount(Head(fs), total, redeem), redeem)

\* C18: the amount the instrument's Process is called with is the cart total
\* adjusted by the enabled features in the caller's order, the first feature
\* first: fn(...f1(total)...).
C18_CallerOrder ==
    (Returned /\ reply.ok) =>
        reply.charged = InCallerOrder(call.chain, call.amount, call.redeem)

\* C19: while a successful Process unwinds, AppliedDecorators holds the
\* names of the decorators that have returned, innermost first, each once;
\* when the outermost has returned it is the chain, and as long as it.
C19_AppliedOnUnwind ==
    /\ call.kind = "up" => reply.applied = SubSeq(call.chain, 1, call.level - 1)
    /\ (Returned /\ reply.ok) =>
          /\ reply.applied = call.chain
          /\ Len(reply.applied) = Len(call.chain)

C19_Witness ==
    /\ Returned
    /\ reply.ok
    /\ Len(call.chain) >= 3
    /\ reply.applied[1] = "tax"
    /\ reply.applied[3] = "cashback"

\* C20: a successful Process(amount) on the outermost decorator returns a
\* result whose OriginalAmount is the amount of that call.
C20_OriginalAmount ==
    (Returned /\ reply.ok) => reply.originalAmount = call.amount

\* C21: while the failure of a wrapped Payment travels up the chain, and
\* when it leaves it, the error is the one first returned and there is no
\* result: no name applied, no metadata, no timestamp recorded by the fraud
\* decorator.
C21_ErrorUnchanged ==
    (call.kind \in {"fail", "returned"} /\ ~reply.ok) =>
        /\ reply.err = call.raised
        /\ reply.err # NoError
        /\ reply = FailedResult(call.raised, reply.baseCalls)

C21_Witness ==
    /\ Returned
    /\ ~reply.ok
    /\ reply.baseCalls = 1
    /\ Len(call.chain) >= 3
    /\ call.chain[Len(call.chain)] = "fraud_detection"
    /\ call.chain[1] = "discount"

Min(a, b) == IF a < b THEN a ELSE b

\* The discount the claim states: p percent of a, or the fixed v, capped by
\* maxDiscount (when one is set) and by a.
StatedDiscount(cfg, a) ==
    LET raw == IF cfg.discountType = "percentage"
               THEN (a * cfg.discountValue) \div 100 ELSE cfg.discountValue
    IN Min(a, IF cfg.maxDiscount > 0 THEN Min(raw, cfg.maxDiscount) ELSE raw)

DiscountReturned == call.kind = "discount" /\ call.pc = "returned"

\* C22: a successful Process reports, and has forwarded, the amount less
\* the stated discount, between 0 and the amount (10% of 100 leaves 90, a
\* fixed 20 of 100 leaves 80); an expired discount fails for every amount
\* and the wrapped Payment is not called.
C22_DiscountAmount ==
    DiscountReturned =>
        /\ reply.ok =>
              /\ reply.processedAmount = call.amount - StatedDiscount(call.cfg, call.amount)
              /\ reply.charged = reply.processedAmount
              /\ reply.processedAmount >= 0
              /\ reply.processedAmount <= call.amount
              /\ (call.amount = 100 /\ call.cfg.maxDiscount \in {0, 100}) =>
                    /\ (call.cfg.discountType = "percentage"
                           /\ call.cfg.discountValue = 10) => reply.processedAmount = 90
                    /\ (call.cfg.discountType = "fixed"
                           /\ call.cfg.discountValue = 20) => reply.processedAmount = 80
        /\ call.expired => (~reply.ok /\ reply.baseCalls = 0)

C22_Witness ==
    /\ DiscountReturned
    /\ reply.ok
    /\ call.cfg.discountType = "percentage"
    /\ call.cfg.maxDiscount = 15
    /\ call.amount = 1000
    /\ reply.processedAmount = 985

\* pointsToRedeem / ratio exceeds maxRedemptionPercentage percent of the
\* amount (both sides in cents, times ratio and times 100).
StatedOverCap(cfg, amount) ==
    cfg.pointsToRedeem * Cents * 100 > amount * cfg.maxPct * cfg.ratio

\* C23: a decorator is built only for 0 <= pointsToRedeem <= availablePoints;
\* its Process fails before the wrapped Payment is called when the points'
\* value is over the cap, calls it otherwise, and on success has charged
\* amount - pointsToRedeem/ratio and reports floor(amount) points earned and
\* the balance available - redeemed + earned.
C23_LoyaltyRedemption ==
    call.kind = "loyalty" =>
        /\ call.pc = "rejected" <=>
              (call.cfg.pointsToRedeem < 0
                 \/ call.cfg.pointsToRedeem > call.cfg.availablePoints)
        /\ call.pc = "returned" =>
              /\ StatedOverCap(call.cfg, call.amount) =>
                    (~reply.ok /\ reply.baseCalls = 0)
              /\ ~StatedOverCap(call.cfg, call.amount) => reply.baseCalls = 1
              /\ reply.ok =>
                    /\ reply.charged * call.cfg.ratio =
                          call.amount * call.cfg.ratio - call.cfg.pointsToRedeem * Cents
                    /\ reply.earned * Cents <= call.amount
                    /\ call.amount < (reply.earned + 1) * Cents
                    /\ reply.redeemed = call.cfg.pointsToRedeem
                    /\ reply.balanceAfter =
                          call.cfg.availablePoints - reply.redeemed + reply.earned

C23_Witness ==
    /\ call.kind = "loyalty"
    /\ call.pc = "returned"
    /\ reply.ok
    /\ call.amount = 40099
    /\ call.cfg.pointsToRedeem = 200
    /\ call.cfg.ratio = 2
    /\ reply.earned = 400
    /\ reply.charged = 30099

SplitReturned == call.kind = "split" /\ call.pc = "returned"

\* The total and the parts are positive and agree to two decimals.
StatedSplitOk(parts, total) ==
    /\ total > 0
    /\ \A i \in 1..Len(parts) : parts[i].amount > 0
    /\ Format2(SumAmounts(parts)) = Format2(total)

\* C24: an Execute whose total or parts are not positive, or whose parts do
\* not sum to the total to two decimals, returns a validation error and has
\* called Process of no part.
C24_SplitMismatch ==
    call.kind = "split" =>
        /\ (call.pc = "loop" \/ \E i \in 1..Len(call.parts) : call.calls[i] > 0) =>
              StatedSplitOk(call.parts, call.total)
        /\ (call.pc = "returned" /\ ~StatedSplitOk(call.parts, call.total)) =>
              /\ ~reply.ok
              /\ GetErrorCode(reply.err) = ErrCodeValidation
              /\ Len(reply.err) = 1
              /\ \A i \in 1..Len(call.parts) : call.calls[i] = 0

C24_Witness ==
    /\ SplitReturned
    /\ Len(call.parts) >= 2
    /\ \A i \in 1..Len(call.parts) : call.parts[i].amount > 0
    /\ call.total > 0
    /\ SumAmounts(call.parts) # call.total
    /\ ~reply.ok

\* C25: the parts are processed in list order; when part k fails, every
\* part before it was processed once, part k once, no part after it, the
\* k-1 processed parts are the ones logged as rolled back, no instrument
\* was called to compensate, and Execute returns an error and no result.
C25_SplitFailure ==
    call.kind = "split" =>
        /\ call.pc = "loop" =>
              \A i \in 1..Len(call.parts) :
                  call.calls[i] = IF i < call.k THEN 1 ELSE 0
        /\ (call.pc = "returned" /\ call.failedAt > 0) =>
              /\ \A i \in 1..Len(call.parts) :
                    call.calls[i] = IF i <= call.failedAt THEN 1 ELSE 0
              /\ Len(call.processed) = call.failedAt - 1
              /\ call.logged = [i \in 1..(call.failedAt - 1) |-> i]
              /\ call.refunds = 0
              /\ reply = FailedResult(reply.err, 1)
              /\ reply.err # NoError

C25_Witness ==
    /\ SplitReturned
    /\ Len(call.parts) = 3
    /\ call.failedAt = 2
    /\ ~call.done
    /\ Len(call.logged) = 1

StrategyReturned(type) ==
    call.kind = "strategy" /\ call.pc = "returned" /\ call.cfg.type = type

InRange(cfg, amount) == cfg.minAmount <= amount /\ amount <= cfg.maxAmount

RECURSIVE SumSeq(_)
SumSeq(q) == IF q = <<>> THEN 0 ELSE Head(q) + SumSeq(Tail(q))

\* C26: a deferred Execute on an amount in range calls Process once, with
\* amount*(1+r/100)/N; on success Amount and ProcessedAmount are that first
\* installment, OriginalAmount is the full amount, N-1 installments remain,
\* and the schedule has N equal installments that sum to amount*(1+r/100).
C26_DeferredFirstInstallment ==
    (StrategyReturned("deferred") /\ InRange(call.cfg, call.amount)) =>
        LET N == call.cfg.installments
            total == call.amount * (100 + call.cfg.interestRate)
        IN /\ reply.processCalls = 1
           /\ reply.baseCalls = 1
           /\ reply.ok =>
                 /\ reply.charged * 100 * N = total
                 /\ reply.amount = reply.charged
                 /\ reply.processedAmount = reply.charged
                 /\ reply.originalAmount = call.amount
                 /\ reply.remaining = N - 1
                 /\ Len(reply.schedule) = N
                 /\ \A i \in 1..N : reply.schedule[i] = reply.charged
                 /\ SumSeq(reply.schedule) * 100 = total
                 /\ (N = 3 /\ call.cfg.interestRate = 0) =>
                       reply.amount * 3 = call.amount

C26_Witness ==
    /\ StrategyReturned("deferred")
    /\ reply.ok
    /\ call.cfg.installments = 4
    /\ call.cfg.interestRate = 20
    /\ call.amount = 1200
    /\ reply.amount = 360

\* C27: an instant Execute on an amount below min or above max returns an
\* error and Process is not called; on an amount in range Process is called
\* once, with that amount, and a success is tagged payment_strategy = instant.
C27_InstantStrategy ==
    StrategyReturned("instant") =>
        /\ ~InRange(call.cfg, call.amount) =>
              (~reply.ok /\ reply.processCalls = 0 /\ reply.baseCalls = 0)
        /\ InRange(call.cfg, call.amount) =>
              /\ reply.processCalls = 1
              /\ reply.baseCalls = 1
              /\ reply.ok => (reply.charged = call.amount
                                /\ reply.amount = call.amount
                                /\ reply.strategy = "instant")

C27_Witness ==
    /\ StrategyReturned("instant")
    /\ call.amount = 12000
    /\ call.cfg.maxAmount = 10000
    /\ ~reply.ok

InstrumentReturned == call.kind = "instrument" /\ call.pc = "returned"

\* The range of each instrument, in cents: credit card 1..10000, PayPal
\* 1..5000, crypto 10..50000.
StatedInRange(method, amount) ==
    IF method = "credit_card" THEN 100 <= amount /\ amount <= 1000000
    ELSE IF method = "paypal" THEN 100 <= amount /\ amount <= 500000
    ELSE 1000 <= amount /\ amount <= 5000000

\* C28: Process of a base instrument on an amount within its range and a
\* live context succeeds with Amount = OriginalAmount = ProcessedAmount =
\* amount and no applied decorators; with a cancelled or expired context it
\* fails with a timeout error, with an amount out of range it fails with a
\* validation error, and a failure produces no transaction id.
C28_BaseInstrument ==
    InstrumentReturned =>
        /\ (~call.done /\ StatedInRange(call.method, call.amount)) =>
              /\ reply.ok
              /\ reply.amount = call.amount
              /\ reply.originalAmount = call.amount
              /\ reply.processedAmount = call.amount
              /\ reply.applied = <<>>
              /\ call.ids = 1
        /\ call.done =>
              /\ ~reply.ok
              /\ IsErrorCode(reply.err, ErrCodeTimeout)
              /\ call.ids = 0
        /\ (~call.done /\ ~StatedInRange(call.method, call.amount)) =>
              /\ ~reply.ok
              /\ IsErrorCode(reply.err, ErrCodeValidation)
              /\ call.ids = 0

C28_Witness ==
    /\ InstrumentReturned
    /\ call.method = "crypto"
    /\ call.amount = 5000000
    /\ ~call.done
    /\ reply.ok
    /\ reply.processedAmount = 5000000

VelocityReturned == call.kind = "velocity" /\ call.pc = "returned"

\* C29: a Process call made when the transactions recorded inside the
\* velocity window number maxTransactionsPerWindow or more is rejected with
\* a fraud-detected error, on the first call and for the ceiling 0 too; so
\* no more than maxTransactionsPerWindow recorded successes share a window.
C29_VelocityCeiling ==
    /\ (VelocityReturned /\ call.seen >= call.cfg.maxTransactionsPerWindow) =>
          (~reply.ok /\ IsErrorCode(reply.err, ErrCodeFraudDetected))
    /\ call.kind = "velocity" =>
          call.recent <= call.cfg.maxTransactionsPerWindow

\* The units of the orders that completed.
RaceSold ==
    (IF call.w[1].pc = "done" THEN call.w[1].qty ELSE 0)
    + (IF call.w[2].pc = "done" THEN call.w[2].qty ELSE 0)

\* C30: two interleaved ProcessOrder calls on one product can both see
\* enough stock and both complete although together they sell more than the
\* initial stock (C30_Witness); every call that reserved saw enough stock
\* at its own comparison, and the units sold exceed the initial stock only
\* when the two calls overlapped.
C30_ReserveRace ==
    call.kind = "race" =>
        /\ \A i \in Callers :
              call.w[i].pc \in {"load", "store", "pay", "done"} =>
                  call.w[i].saw >= call.w[i].qty
        /\ RaceSold > call.initial => call.overlap

C30_Witness ==
    /\ call.kind = "race"
    /\ call.w[1].pc = "done"
    /\ call.w[2].pc = "done"
    /\ RaceSold > call.initial
    /\ call.stock \in {call.initial - call.w[1].qty,
                        call.initial - call.w[2].qty,
                        call.initial - RaceSold}

HasUnknownFeature(features) ==
    \E i \in 1..Len(features) :
        features[i] \notin {"discount", "cashback", "fraud_detection", "tax",
                            "loyalty_points"}

\* C31: a checkout whose decorator list holds an unknown feature name, at
\* any position and whatever the enable flags, returns an error, calls no
\* Payment.Process, leaves the stock as it was before the call with every
\* reserved line released, and emits the failed event.
C31_UnknownFeatureFails ==
    (Done /\ HasUnknownFeature(opts.decorators)) =>
        /\ Failed
        /\ ~ret.receipt.present
        /\ obs.processCalls = 0
        /\ obs.baseCalls = 0
        /\ ExecCount = 0
        /\ stock = obs.stock0
        /\ obs.releaseCalls = obs.reserveCalls
        /\ CallEvents[Len(CallEvents)].type = EventPaymentFailed

C31_Witness ==
    /\ Failed
    /\ opts.decorators = <<"fraud_detection", "coupon", "discount">>
    /\ "discount" \notin config.enabled
    /\ obs.stage = "decorator application failed"
    /\ obs.reserveCalls # <<>>

\* C32: when ReserveStock fails on line k of the cart, the call fails with
\* no ReleaseStock call: the lines before k stay decremented, ReserveStock
\* was not called for the lines after k, so these and line k keep their
\* stock, and no Payment.Process call is made.
C32_NoPartialRollback ==
    (Failed /\ obs.stage = "inventory reservation failed") =>
        LET k == Len(obs.reserveCalls)
        IN /\ k >= 1
           /\ obs.reserveCalls = ProductIDs(SubSeq(obs.cart0, 1, k))
           /\ obs.releaseCalls = <<>>
           /\ \A p \in DOMAIN stock :
                 stock[p] = obs.stock0[p]
                            - QuantityOf(SubSeq(obs.cart0, 1, k - 1), p)
           /\ obs.processCalls = 0
           /\ obs.baseCalls = 0
           /\ ExecCount = 0

C32_Witness ==
    /\ Failed
    /\ obs.stage = "inventory reservation failed"
    /\ Len(obs.cart0) = 2
    /\ Len(obs.reserveCalls) = 2
    /\ stock[obs.cart0[1].productID] < obs.stock0[obs.cart0[1].productID]

C36_ReportedIsCharged ==
    (Returned /\ reply.ok) =>
        /\ reply.amount = reply.charged
        /\ reply.processedAmount = reply.charged

\* C34: a checkout with the strategy split, or a name that is none of
\* instant, deferred and the empty string, returns an error, never enters the
\* retry loop and calls no Payment.Process; the stock is as before the call
\* with every reserved line released, and the failed event is emitted.
C34_StrategyCreationFails ==
    (Done /\ opts.strategy \notin {"", "instant", "deferred"}) =>
        /\ Failed
        /\ ~ret.receipt.present
        /\ ~obs.retryEntered
        /\ ExecCount = 0
        /\ obs.processCalls = 0
        /\ obs.baseCalls = 0
        /\ stock = obs.stock0
        /\ obs.releaseCalls = obs.reserveCalls
        /\ CallEvents[Len(CallEvents)].type = EventPaymentFailed

C34_Witness ==
    /\ Failed
    /\ opts.strategy = "split"
    /\ config.retryAttempts = 2
    /\ obs.stage = "payment processing failed"
    /\ Len(obs.reserveCalls) = 2
    /\ obs.releaseCalls = obs.reserveCalls

\* Events i and j of one transaction, i handed to notifyEvent first.
SameTransaction(i, j) ==
    /\ i < j
    /\ emitted[i].transactionID = emitted[j].transactionID

\* The task of event i has called the observers and returned.
Delivered(i) == tasks[i] # "running"

\* C35 as stated: the observers are notified of a transaction's started
\* event before they are notified of its success or failed event.
C35_DeliveredInOrder ==
    \A i, j \in 1..Len(tasks) :
        (SameTransaction(i, j) /\ Delivered(j)) => Delivered(i)

\* C35, amended: the started event of a transaction is handed to its
\* detached task before the success or failed event of that transaction is
\* handed to its own, one task per event in the order of emission; the order
\* in which the tasks reach the observers is not fixed.
C35_EmittedInOrder ==
    /\ Len(tasks) = Len(emitted)
    /\ \A i, j \in 1..Len(emitted) :
          SameTransaction(i, j) =>
              /\ emitted[i].type = EventPaymentStarted
              /\ emitted[j].type \in {EventPaymentSuccess, EventPaymentFailed}

C35_Witness ==
    /\ Len(tasks) >= 2
    /\ SameTransaction(1, 2)
    /\ emitted[2].type = EventPaymentSuccess
    /\ Delivered(2)
    /\ ~Delivered(1)

\* C37: a call that returns an error leaves the customer's stored loyalty
\* balance, the stored transactions and the lines of the cart as they were
\* when the call began, and has called neither UpdateLoyaltyPoints nor
\* CreateTransaction.
C37_FailureFrame ==
    Failed =>
        /\ loyalty = obs.loyalty0
        /\ obs.loyaltyCalls = 0
        /\ transactions = obs.transactions0
        /\ obs.createCalls = 0
        /\ tx.id \notin DOMAIN transactions
        /\ cart = obs.cart0
        /\ GetCartByCustomer(CustomerID) = obs.cart0

C37_Witness ==
    /\ Failed
    /\ obs.stage = "payment processing failed"
    /\ opts.useLoyaltyPoints > 0
    /\ obs.loyalty0 > 0
    /\ DOMAIN obs.transactions0 # {}
    /\ Len(obs.cart0) >= 1
    /\ ExecCount >= 1

\* C38: with the instant or the deferred strategy, the instrument's Process
\* returns success in a call exactly when the call returns a receipt, and at
\* most once in a call: a call that returns an error has charged nothing,
\* whatever the number of attempts.
C38_ChargeIffReceipt ==
    (pc # "idle" /\ strategyType \in {"instant", "deferred"}) =>
        /\ obs.charges <= 1
        /\ Done => (obs.charges = 1 <=> ret.receipt.present)
        /\ Failed => obs.charges = 0
        /\ obs.charges = 1 => pc \in {"complete", "done"}

C38_Witness ==
    /\ Succeeded
    /\ obs.charges = 1
    /\ ExecCount = 3
    /\ obs.baseCalls = 1
    /\ opts.strategy = "deferred"

\* The checkouts that succeeded before the call in progress began.
EarlierSuccesses ==
    Cardinality({i \in 1..obs.emitted0 : emitted[i].type = EventPaymentSuccess})

\* C39: the successful payments of earlier checkouts count against the
\* velocity check of a later checkout: the history its fraud decorator
\* consults holds them all, so that no more than MaxTransactionsPerWindow
\* checkouts succeed in one window.
C39_VelocityAcrossCheckouts ==
    (pc = "attempt" /\ chain = <<"fraud_detection">>) =>
        /\ velocity >= EarlierSuccesses
        /\ EarlierSuccesses >= MaxTransactionsPerWindow => attempt = 0

\* C40: under any interleaving of Notify calls on one SMSNotifier, no more
\* than rateLimit messages are sent and recorded within one minute, and a
\* Notify whose check finds rateLimit messages recorded in the last minute
\* returns an error without sending.
C40_SmsRateLimit ==
    call.kind = "sms" =>
        /\ Len(Recent(call.messageTimes, call.now)) <= call.rateLimit
        /\ \A i \in Callers :
              call.w[i].found >= call.rateLimit =>
                  (call.w[i].pc = "idle" /\ call.w[i].ret = "limited")
====
